---- MODULE Spec2Model ----
(***************************************************************************)
(* node-kasa: the protocol / transport stack.                              *)
(*                                                                         *)
(* Spec: concurrent callers of IotProtocol.query / SmartProtocol.query on  *)
(* one protocol instance that owns one KLAP (v1 or v2) or AES transport,   *)
(* against a device and a network that answer arbitrarily.  Every action   *)
(* is one run-to-completion segment of the JavaScript event loop: the code *)
(* between two awaits that really suspend (HTTP round trips and timers).   *)
(***************************************************************************)
EXTENDS Integers, Sequences, FiniteSets, TLC

\* ---------------------------------------------------------------- bounds
NumCallers == 3        \* concurrent callers, one query() each
MaxRetryCount == 1     \* largest retryCount a caller passes to query()
MaxTicks == 1          \* how often the wall clock advances
SeqMax == 1            \* the largest value writeInt32BE packs (2^31-1), scaled down:
                       \* the model checker's own integers end at 2^31-1
MaxSeed == 1           \* seeds are drawn from 0..MaxSeed
TagSpace == 8          \* size of the (truncated) digest space of handshake tags
TickMs == 86400000     \* one clock step, in milliseconds
MaxBatch == 2          \* config.batchSize is unset or one of 1..MaxBatch
MaxSum == 2            \* the sum of a paged list is one of 0..MaxSum
MaxChars == 2          \* a plaintext has at most MaxChars characters
MaxDatagrams == 3      \* a discovery receives at most MaxDatagrams datagrams
MaxKeys == 2           \* raw emeter data has at most MaxKeys keys
MaxPlain == 33         \* a plaintext of the KLAP cipher has at most MaxPlain bytes

\* ------------------------------------------------------- program constants
ONE_DAY_SECONDS == 86400
SESSION_EXPIRE_BUFFER_SECONDS == 1200
KEY_PAIR_CONTENT_LENGTH == 314
DEFAULT_MULTI_REQUEST_BATCH_SIZE == 5
JSON_DECODE_FAIL_ERROR == -1003
INTERNAL_UNKNOWN_ERROR == -100000
SESSION_EXPIRED == -40401

Callers == 1..NumCallers
RetryCounts == 0..MaxRetryCount
Seeds == 0..MaxSeed
Tags == 0..(TagSpace - 1)
\* the range of readInt32BE and writeInt32BE, scaled: SeqMin..SeqMax
SeqMin == 0 - SeqMax - 1
\* values of the last four digest bytes read as int32, taken as initial seq
InitialSeqs == SeqMin..SeqMax

VARIABLES
  protocol,     \* "iot" | "smart": the class of the protocol instance
  transport,    \* "klap" | "klapv2" | "aes": the class of its transport
  localAuthHash,\* KlapTransport._localAuthHash
  pc,           \* per caller: "idle" | "waiting" | "running" | "done"
  queryLock,    \* protocol._queryLock
  timerQ,       \* pending 10 ms poll timers of waiting callers, in expiry order
  q,            \* per caller, the frame of its _query: retry, retryCount, attempts, stage
  tr,           \* transport fields: handshakeDone (KLAP), state and tokenUrl (AES),
                \* sessionExpireAt, sessionCookie, encryptionSession
  frame,        \* per caller, the locals of its send(): seeds, server hash, auth hash, seq
  now,          \* Date.now()
  ticks,        \* clock steps taken
  obs,          \* observations: what was sent, in which order, and how calls ended
  smart,        \* SmartProtocol: _multiRequestBatchSize and the frames of _query,
                \* _executeQuery, _executeMultipleQuery and _handleResponseLists
  factory,      \* devicefactory: the last call of getProtocol or connect and how it went
  xor,          \* a query over the XOR transport
  disc,         \* a discovery: the _DiscoverProtocol and its caller
  emeter,       \* an EmeterStatus and the last value read from it
  cipher,       \* a KlapEncryptionSession at work: the last encrypt and the last decrypt
  cam           \* SmartCamProtocol: a query of one request and how it ended

vars ==
  <<protocol, transport, localAuthHash, pc, queryLock, timerQ, q, tr, frame, now, ticks, obs,
    smart,
    factory,
    xor,
    disc,
    emeter,
    cipher,
    cam>>

INITIALIZATION_VECTOR == 171
BLOCK_SIZE == 4
blockSize == 16
SIGNATURE_LENGTH == 32

\* ---------------------------------------------------------------- values
NullAt == [k |-> "null", v |-> 0]
NanAt == [k |-> "nan", v |-> 0]
NumAt(n) == [k |-> "num", v |-> n]

NoSession == [live |-> FALSE, seq |-> 0, init |-> 0, encrypts |-> 0, userHash |-> 0]
NoQuery == [retry |-> 0, retryCount |-> 0, attempts |-> 0, stage |-> "none"]
NoAcc == [some |-> FALSE, v |-> 0]
TransportInit ==
  [handshakeDone |-> FALSE, state |-> "HANDSHAKE_REQUIRED", sessionExpireAt |-> NullAt,
   sessionCookie |-> "null", encryptionSession |-> NoSession, tokenUrl |-> "null"]

NoAttempt ==
  [caller |-> 0, attempts |-> 0, retryCount |-> 0, cause |-> "none", err |-> "none",
   left |-> TransportInit, reset |-> FALSE, thrown |-> "none"]

NoWake == [woke |-> 0, first |-> 0]
NoPre == [tr |-> TransportInit, now |-> 0, after403 |-> FALSE]
ObsInit ==
  [queued |-> <<>>, wake |-> NoWake, posts |-> <<>>, pre |-> NoPre,
   last |-> NoAttempt, accMax |-> NoAcc, accMaxSess |-> NoAcc, enc |-> "none",
   contentLength |-> 0,
   body |-> [kind |-> "none", method |-> "none", key |-> "none"]]

\* ------------------------------------------------------------ the network
\* What HttpClient.post can end with: a thrown error (net) or [status, body].
NetErrs == {"Timeout", "Connection", "Kasa"}
NoReply ==
  [net |-> "none", status |-> 0, len |-> 0, remoteSeed |-> 0, serverHash |-> 0,
   sid |-> "null", timeout |-> "null", body |-> "none", code |-> 0, inner |-> 0]
NetFail(e) == [NoReply EXCEPT !.net = e]
Http(st) == [NoReply EXCEPT !.net = "ok", !.status = st]

\* HttpClient.post: ECONNRESET/EPIPE -> ConnectionError, ETIMEDOUT -> TimeoutError,
\* any other failure -> KasaException; otherwise the status and the body are returned.
HttpClientPost(reply) ==
  IF reply.net = "ok" THEN [thrown |-> "none", status |-> reply.status]
  ELSE [thrown |-> reply.net, status |-> 0]

\* Replies to handshake1: 48-byte bodies with the given seeds, tags, session
\* cookies and TIMEOUT cookies; bodies of a wrong length; failures and a wrong status.
Handshake1Replies(seeds, tags, sids, timeouts) ==
  {[Http(200) EXCEPT !.len = 48, !.remoteSeed = rs, !.serverHash = t,
                     !.sid = c, !.timeout = to] :
     rs \in seeds, t \in tags, c \in sids, to \in timeouts}
WrongLengthReplies == {[Http(200) EXCEPT !.len = n] : n \in {0, 10, 47, 49}}
Handshake1Failures == {NetFail(e) : e \in NetErrs} \cup {Http(500)}

Handshake2Replies == {NetFail(e) : e \in NetErrs} \cup {Http(200), Http(500)}

RequestReplies ==
  {NetFail(e) : e \in NetErrs} \cup {Http(403), Http(500)}
  \cup {[Http(200) EXCEPT !.body = b] : b \in {"garbage", "null", "json_no_code"}}
  \cup {[Http(200) EXCEPT !.body = "json", !.code = k] : k \in {0, -40401, -1501, -1008}}

NoFrame ==
  [localSeed |-> 0, reply1 |-> NoReply, authHash |-> 0, seq |-> 0, respDict |-> NoReply]

\* ---------------------------------------------------------- KlapTransport
\* The auth hashes of DEFAULT_CREDENTIALS, in the order of Object.entries:
\* KASA, KASACAMERA, TAPO, TAPOCAMERA; and of the blank Credentials().
\* In the truncated digest space the tags of TAPOCAMERA and of the blank
\* credentials collide, so that the order of the comparisons shows.
DefaultCredentialsAuthHash == <<1, 2, 3, TagSpace>>
BlankAuthHash == 0
\* The user's auth hash: blank credentials, own credentials, and own
\* credentials whose tag collides with the KASA default's in the digest space.
UserAuthHashes == {BlankAuthHash, 5, TagSpace + 1}

sha256(x) == x % TagSpace

handshake1SeedAuthHash(kind, localSeed, remoteSeed, authHash) ==
  IF kind = "klapv2" THEN sha256(localSeed + remoteSeed + authHash)
  ELSE sha256(localSeed + authHash)

RECURSIVE DefaultMatch(_, _, _, _, _)
\* a handshake that tries no default credentials
DefaultMatchNone(kind, localSeed, remoteSeed, serverHash, i) == 0
\* the for-loop over DEFAULT_CREDENTIALS: the first default whose tag is the server's, or 0
DefaultMatch(kind, localSeed, remoteSeed, serverHash, i) ==
  IF i > Len(DefaultCredentialsAuthHash) THEN 0
  ELSE IF handshake1SeedAuthHash(kind, localSeed, remoteSeed, DefaultCredentialsAuthHash[i])
            = serverHash
       THEN i
       ELSE DefaultMatch(kind, localSeed, remoteSeed, serverHash, i + 1)

BlankMatch(kind, localSeed, remoteSeed, serverHash) ==
  handshake1SeedAuthHash(kind, localSeed, remoteSeed, BlankAuthHash) = serverHash

\* the length of the whole reply body
ServerHashLengthUnsliced(reply) == reply.len
\* serverHash = responseData.slice(16): its length
ServerHashLength(reply) == IF reply.len > 16 THEN reply.len - 16 ELSE 0

\* performHandshake1, from the reply on: the error thrown, or the auth hash returned.
performHandshake1(kind, userHash, localSeed, reply) ==
  LET post == HttpClientPost(reply)
      serverHashLen == ServerHashLength(reply)
      d == DefaultMatch(kind, localSeed, reply.remoteSeed, reply.serverHash, 1)
  IN IF post.thrown # "none" THEN [err |-> post.thrown, cause |-> "hs1_net", authHash |-> 0]
     ELSE IF post.status # 200 THEN [err |-> "Kasa", cause |-> "hs1_status", authHash |-> 0]
     ELSE IF serverHashLen # 32 THEN [err |-> "Kasa", cause |-> "hs1_length", authHash |-> 0]
     ELSE IF handshake1SeedAuthHash(kind, localSeed, reply.remoteSeed, userHash)
               = reply.serverHash
          THEN [err |-> "none", cause |-> "none", authHash |-> userHash]
     ELSE IF d # 0
          THEN [err |-> "none", cause |-> "none", authHash |-> DefaultCredentialsAuthHash[d]]
     ELSE IF BlankMatch(kind, localSeed, reply.remoteSeed, reply.serverHash)
          THEN [err |-> "none", cause |-> "none", authHash |-> BlankAuthHash]
     ELSE [err |-> "Auth", cause |-> "hs1_mismatch", authHash |-> 0]

\* parseInt(getCookie(TIMEOUT) || String(ONE_DAY_SECONDS))
ParseTimeout(cookie) ==
  IF cookie = "null" THEN NumAt(ONE_DAY_SECONDS)
  ELSE IF cookie = "600" THEN NumAt(600)
  ELSE NanAt

\* Date.now() + timeout * 1000 - SESSION_EXPIRE_BUFFER_SECONDS * 1000
SessionExpireAt(t, cookie) ==
  LET timeout == ParseTimeout(cookie)
  IN IF timeout.k = "nan" THEN NanAt
     ELSE NumAt(t + timeout.v * 1000 - SESSION_EXPIRE_BUFFER_SECONDS * 1000)

\* an expiry test that knows unset sessions only
HandshakeSessionNeverSet(at, t) == at.k = "null"
\* _handshakeSessionExpired: NaN compares false
HandshakeSessionExpired(at, t) ==
  at.k = "null" \/ (at.k = "num" /\ at.v - t <= 0)

\* a send() that looks at the expiry only
NeedsHandshakeWhenExpired(t, expired) == expired
\* KlapTransport.send: if (!this._handshakeDone || this._handshakeSessionExpired())
NeedsHandshake(t, expired) == ~t.handshakeDone \/ expired

\* new KlapEncryptionSession: seq is the last four digest bytes read as int32
NewSession(seq0, authHash) ==
  [live |-> TRUE, seq |-> seq0, init |-> seq0, encrypts |-> 0, userHash |-> authHash]

\* an encrypt that steps seq backwards
EncryptBackwards(s) ==
  [session |-> [s EXCEPT !.seq = @ - 1, !.encrypts = @ + 1], thrown |-> "none",
   seq |-> s.seq - 1]
\* KlapEncryptionSession.encrypt: seq += 1, then packSignedLong(seq) throws a
\* RangeError when seq does not fit int32; otherwise [payload, seq] is returned.
Encrypt(s) ==
  LET s2 == [s EXCEPT !.seq = @ + 1, !.encrypts = @ + 1]
  IN [session |-> s2, thrown |-> IF s2.seq > SeqMax THEN "Js" ELSE "none",
      seq |-> s2.seq]

\* KlapEncryptionSession.decrypt: the session is read, never written
Decrypt(s, body) ==
  [session |-> s, thrown |-> IF body = "garbage" THEN "Js" ELSE "none"]

\* KlapTransport.reset
KlapReset(t) == [t EXCEPT !.handshakeDone = FALSE]

\* ----------------------------------------------------------- AesTransport
\* SmartErrorCode.fromInt: an object {name, value} for every value, known or not
SmartErrorCodeFromInt(value) == [type |-> "object", value |-> value]
\* a static member of SmartErrorCode: a number
SmartErrorCodeMember(value) == [type |-> "number", value |-> value]
\* === of JavaScript on these values: an object is never identical to a number
StrictEquals(a, b) == a.type = "number" /\ b.type = "number" /\ a.value = b.value
\* Set.prototype.has of a set of numbers
SetHas(numbers, x) == \E n \in numbers : StrictEquals(SmartErrorCodeMember(n), x)

\* the sets aestransport.js declares: SESSION_EXPIRED and
\* TRANSPORT_UNKNOWN_CREDENTIALS_ERROR; LOGIN_ERROR and the latter
AES_SMART_RETRYABLE_ERRORS == {-40401, 1003}
AES_SMART_AUTHENTICATION_ERRORS == {-1501, 1003}

\* AesTransport._handleResponseErrorCode: the error thrown ("none": it returns)
AesHandleResponseErrorCode(body, code) ==
  LET errorCode == SmartErrorCodeFromInt(code)
  IN IF body = "null" THEN "Js"  \* respDict is null: TypeError
     ELSE IF StrictEquals(errorCode, SmartErrorCodeMember(0)) THEN "none"
     ELSE IF SetHas(AES_SMART_RETRYABLE_ERRORS, errorCode) THEN "Retryable"
     ELSE IF SetHas(AES_SMART_AUTHENTICATION_ERRORS, errorCode) THEN "Auth"
     ELSE "Device"

\* AesTransport.reset
AesReset(t) == [t EXCEPT !.state = "HANDSHAKE_REQUIRED"]

\* JSON.stringify(json) of HttpClient.post, in bytes: the handshake passes the
\* async generator object of _generateKeyPairPayload, which serialises to "{}"
JsonStringifyLength(json) == IF json = "generator" THEN 2 ELSE 0
\* HttpClient.post: the Content-Length header that goes out, given the one the
\* caller passed: it is overwritten whenever there is request data
ContentLengthHeader(passed, requestDataLength) ==
  IF requestDataLength > 0 THEN requestDataLength ELSE passed
\* the Content-Length header of the handshake post of AesTransport.performHandshake
HandshakeContentLength ==
  ContentLengthHeader(KEY_PAIR_CONTENT_LENGTH, JsonStringifyLength("generator"))

\* _generateKeyPairPayload(): the async generator object the call returns; its
\* body, which makes the key pair and yields the request, runs when it is iterated
GenerateKeyPairPayload ==
  [kind |-> "generator", method |-> "handshake", key |-> "publicKeyPem"]
\* JSON.stringify(json) of HttpClient.post: the text of an object, and "{}" for
\* a generator object, which has no enumerable property of its own
JsonStringify(json) ==
  IF json.kind = "generator" THEN [kind |-> "text", method |-> "none", key |-> "none"]
  ELSE [json EXCEPT !.kind = "text"]
\* the body of the handshake post of AesTransport.performHandshake
HandshakeBody == JsonStringify(GenerateKeyPairPayload)

\* HttpClient.post with a json argument: a 200 body that is no JSON makes
\* jsonLoads throw inside the try block of post, which rethrows a KasaException
AesPost(reply) ==
  IF reply.net = "ok" /\ reply.status = 200 /\ reply.body = "garbage"
  THEN [thrown |-> "Kasa", status |-> 0]
  ELSE HttpClientPost(reply)

\* The error AesTransport.performHandshake throws for a reply ("none": it returns)
AesHandshakeError(reply) ==
  LET post == AesPost(reply)
  IN IF post.thrown # "none" THEN post.thrown
     ELSE IF post.status # 200 THEN "Kasa"
     ELSE AesHandleResponseErrorCode(reply.body, reply.code)

\* The error AesTransport.sendSecurePassthrough throws for a reply
AesPassthroughError(reply) ==
  LET post == AesPost(reply)
  IN IF post.thrown # "none" THEN post.thrown
     ELSE IF post.status # 200 THEN "Kasa"
     ELSE AesHandleResponseErrorCode(reply.body, reply.code)

\* The error AesTransport.tryLogin throws for a reply: that of the passthrough,
\* or that of the error_code of the decrypted login response
AesLoginError(reply) ==
  IF AesPassthroughError(reply) # "none" THEN AesPassthroughError(reply)
  ELSE AesHandleResponseErrorCode("json", reply.inner)

\* performLogin: aex.errorCode !== SmartErrorCode.LOGIN_ERROR is false, where
\* aex.errorCode is the object _handleResponseErrorCode threw with
IsLoginError(reply) ==
  LET code == IF AesPassthroughError(reply) # "none" THEN reply.code ELSE reply.inner
  IN StrictEquals(SmartErrorCodeFromInt(code), SmartErrorCodeMember(-1501))

\* Which step of an AES post failed: the post itself, the status check, the
\* error_code of the reply, or the error_code of the decrypted login response
AesCause(reply) ==
  IF AesPost(reply).thrown # "none" THEN "aes_net"
  ELSE IF AesPost(reply).status # 200 THEN "aes_status"
  ELSE IF AesHandleResponseErrorCode(reply.body, reply.code) # "none" THEN "aes_error_code"
  ELSE "aes_login_code"

\* performLogin, the catch around the fallback: authentication, connection and
\* timeout errors pass, every other error becomes a KasaException
FallbackError(err) ==
  IF err \in {"Auth", "Connection", "Timeout"} THEN err ELSE "Kasa"

\* The transport an AES send() leaves when it throws err: both
\* _handleResponseErrorCode and the catch of send() around performLogin set the
\* state to HANDSHAKE_REQUIRED for an AuthenticationError
AesAfterError(t, err) == IF err = "Auth" THEN AesReset(t) ELSE t

\* protocol._transport.reset()
Reset(kind, t) == IF kind = "aes" THEN AesReset(t) ELSE KlapReset(t)

\* ------------------------------------------------- IotProtocol / SmartProtocol
\* SmartProtocol._handleResponseErrorCode with raiseOnError: the error raised for
\* a response's error_code ("none" for SUCCESS).
\* SESSION_EXPIRED, TRANSPORT_UNKNOWN_CREDENTIALS_ERROR; the third member,
\* SmartErrorCode.DEVICE_BUSY, is undefined: it matches a missing error_code.
SMART_RETRYABLE_ERRORS == {-40401, 1003}
SMART_AUTHENTICATION_ERRORS == {-1501, 1003}
SmartHandleResponseErrorCode(body, code) ==
  IF body = "null" THEN "Js"   \* respDict.error_code of null: TypeError
  ELSE IF body = "json_no_code" THEN "Retryable"
  ELSE IF code = 0 THEN "none"
  ELSE IF code \in SMART_RETRYABLE_ERRORS THEN "Retryable"
  ELSE IF code \in SMART_AUTHENTICATION_ERRORS THEN "Auth"
  ELSE "Device"

\* a catch block that throws whatever budget remains
IotCatchThrows(err, retry, retryCount) ==
  [reset |-> err # "Connection", throw |-> TRUE, backoff |-> FALSE]
\* The catch block of IotProtocol._query for an error of one attempt:
\* whether reset() is called, and whether the error is thrown, or the loop
\* continues (after a backoff or at once).
IotCatch(err, retry, retryCount) ==
  IF err = "Connection" THEN
    [reset |-> FALSE, throw |-> retry >= retryCount, backoff |-> FALSE]
  ELSE IF err = "Auth" THEN
    [reset |-> TRUE, throw |-> TRUE, backoff |-> FALSE]
  ELSE IF err = "Retryable" THEN
    [reset |-> TRUE, throw |-> retry >= retryCount, backoff |-> FALSE]
  ELSE IF err = "Timeout" THEN
    [reset |-> TRUE, throw |-> retry >= retryCount, backoff |-> TRUE]
  ELSE IF err \in {"Kasa", "Device"} THEN
    [reset |-> TRUE, throw |-> TRUE, backoff |-> FALSE]
  ELSE \* not a KasaException: no branch matches, the for-loop goes on
    [reset |-> FALSE, throw |-> FALSE, backoff |-> FALSE]

\* The catch block of SmartProtocol._query
SmartCatch(err, retry, retryCount) ==
  IF err = "Connection" THEN
    [reset |-> FALSE, throw |-> retry >= retryCount, backoff |-> FALSE]
  ELSE IF err = "Auth" THEN
    [reset |-> TRUE, throw |-> TRUE, backoff |-> FALSE]
  ELSE IF err = "Retryable" THEN
    [reset |-> TRUE, throw |-> retry >= retryCount, backoff |-> TRUE]
  ELSE IF err = "Timeout" THEN
    [reset |-> TRUE, throw |-> retry >= retryCount, backoff |-> TRUE]
  ELSE \* KasaException, and the final else for every other error
    [reset |-> TRUE, throw |-> TRUE, backoff |-> FALSE]

\* a catch block that never resets the transport
CatchWithoutReset(kind, err, retry, retryCount) ==
  [(IF kind = "iot" THEN IotCatch(err, retry, retryCount)
    ELSE SmartCatch(err, retry, retryCount)) EXCEPT !.reset = FALSE]
Catch(kind, err, retry, retryCount) ==
  IF kind = "iot" THEN IotCatch(err, retry, retryCount)
  ELSE SmartCatch(err, retry, retryCount)

\* a caller that never sees the lock held
LockHeldNever(lock) == FALSE
\* while (this._queryLock) await sleep(10): the test the caller makes
LockHeld(lock) == lock

\* ------------------------------------------------------------ observations
\* a post goes on the wire: obs.posts lists the posts of the running send()
ObsPost(o, kind) == [o EXCEPT !.posts = Append(@, kind)]

AccMax(a, seq) == IF a.some /\ a.v >= seq THEN a ELSE [some |-> TRUE, v |-> seq]

\* what one attempt of caller c came to: the error of _executeQuery and where it
\* arose, the transport as send() left it, whether _query then called reset(),
\* and what _query threw ("none": it went on, or it returned)
Attempt(c, qq, cause, err, t, didReset, thrown) ==
  [caller |-> c, attempts |-> qq.attempts, retryCount |-> qq.retryCount,
   cause |-> cause, err |-> err, left |-> t, reset |-> didReset, thrown |-> thrown]

\* ------------------------------------------------------------------ steps
\* query() returns or throws: the finally block releases the lock.
Finish(c, t, o) ==
  /\ tr' = t
  /\ queryLock' = FALSE
  /\ pc' = [pc EXCEPT ![c] = "done"]
  /\ q' = [q EXCEPT ![c] = NoQuery]
  /\ obs' = o

\* One attempt of the for-loop of _query (frame qq of caller c) ends with error
\* err, thrown by _executeQuery; t and o are the transport and the observations
\* it leaves.
AttemptFails(c, qq, t, o, err, cause) ==
  LET h == Catch(protocol, err, qq.retry, qq.retryCount)
      t2 == IF h.reset THEN Reset(transport, t) ELSE t
  IN IF h.throw
     THEN Finish(c, t2, [o EXCEPT !.last = Attempt(c, qq, cause, err, t, h.reset, err)])
     ELSE IF qq.retry + 1 > qq.retryCount
          THEN \* the loop is over: throw new KasaException('... unreachable')
               Finish(c, t2,
                      [o EXCEPT !.last = Attempt(c, qq, cause, err, t, h.reset,
                                                "Unreachable")])
          ELSE /\ tr' = t2
               /\ obs' = [o EXCEPT !.last = Attempt(c, qq, cause, err, t, h.reset, "none")]
               /\ q' = [q EXCEPT ![c] = [qq EXCEPT !.retry = @ + 1,
                                   !.stage = IF h.backoff THEN "backoff" ELSE "start"]]
               /\ UNCHANGED <<queryLock, pc>>

\* KlapTransport.send from "const [payload, seq] = encrypt(request)" to the post
SendRequest(c, qq, f, t, o) ==
  IF ~t.encryptionSession.live
  THEN /\ AttemptFails(c, qq, t, o, "Js", "no_session")
       /\ frame' = [frame EXCEPT ![c] = NoFrame]
  ELSE LET e == Encrypt(t.encryptionSession)
           t2 == [t EXCEPT !.encryptionSession = e.session]
       IN IF e.thrown # "none"
          THEN /\ AttemptFails(c, qq, t2, [o EXCEPT !.enc = "threw"], e.thrown, "encrypt")
               /\ frame' = [frame EXCEPT ![c] = NoFrame]
          ELSE /\ tr' = t2
               /\ frame' = [frame EXCEPT ![c] = [f EXCEPT !.seq = e.seq]]
               /\ obs' = ObsPost([o EXCEPT !.enc = "returned"], "request")
               /\ q' = [q EXCEPT ![c] = [qq EXCEPT !.stage = "request"]]
               /\ UNCHANGED <<queryLock, pc>>

\* this._queryLock = true; the caller enters _query
Acquire(c, n) ==
  /\ pc' = [pc EXCEPT ![c] = "running"]
  /\ queryLock' = TRUE
  /\ q' = [q EXCEPT ![c] = [retry |-> 0, retryCount |-> n, attempts |-> 0,
                            stage |-> "start"]]

\* Protocol.query(request, retryCount): the lock is taken at once when it is
\* free, otherwise the caller starts polling it every 10 ms.
Call(c, n) ==
  /\ pc[c] = "idle"
  /\ IF LockHeld(queryLock)
     THEN /\ pc' = [pc EXCEPT ![c] = "waiting"]
          /\ timerQ' = Append(timerQ, [caller |-> c, retryCount |-> n])
          /\ obs' = [obs EXCEPT !.queued = Append(@, c)]
          /\ UNCHANGED <<queryLock, q>>
     ELSE /\ Acquire(c, n)
          /\ UNCHANGED <<timerQ, obs>>
  /\ UNCHANGED <<cam, cipher, emeter, disc, xor, factory, smart, protocol, transport, localAuthHash, tr, frame, now, ticks>>

\* The earliest 10 ms timer fires: its caller tests the lock again and either
\* takes it or arms a new timer, which expires after all pending ones.
Poll ==
  /\ timerQ # <<>>
  /\ LET w == Head(timerQ)
     IN IF LockHeld(queryLock)
        THEN /\ timerQ' = Append(Tail(timerQ), w)
             /\ UNCHANGED <<pc, queryLock, q, obs>>
        ELSE /\ timerQ' = Tail(timerQ)
             /\ Acquire(w.caller, w.retryCount)
             /\ obs' = [obs EXCEPT
                          !.wake = [woke |-> w.caller, first |-> Head(obs.queued)],
                          !.queued = SelectSeq(@, LAMBDA x : x # w.caller)]
  /\ UNCHANGED <<cam, cipher, emeter, disc, xor, factory, smart, protocol, transport, localAuthHash, tr, frame, now, ticks>>

\* One iteration of the for-loop of _query starts: _executeQuery calls
\* transport.send, which runs to its first post.
StartAttempt(c, seeds) ==
  /\ q[c].stage = "start"
  /\ LET qq == [q[c] EXCEPT !.attempts = @ + 1]
         expired == HandshakeSessionExpired(tr.sessionExpireAt, now)
         o == [obs EXCEPT !.posts = <<>>, !.last = NoAttempt, !.enc = "none",
                          !.pre = [tr |-> tr, now |-> now,
                                   after403 |-> obs.last.cause = "http403"]]
     IN IF transport = "aes"
        THEN \* AesTransport.send up to its first post
             /\ IF tr.state = "HANDSHAKE_REQUIRED" \/ expired
                THEN /\ tr' = [tr EXCEPT !.tokenUrl = "null", !.sessionExpireAt = NullAt,
                                         !.sessionCookie = "null"]
                     /\ obs' = ObsPost([o EXCEPT !.contentLength = HandshakeContentLength,
                                            !.body = HandshakeBody],
                                       "handshake")
                     /\ q' = [q EXCEPT ![c] = [qq EXCEPT !.stage = "aes_handshake"]]
                ELSE IF tr.state # "ESTABLISHED"
                THEN /\ tr' = tr
                     /\ obs' = ObsPost(o, "login")
                     /\ q' = [q EXCEPT ![c] = [qq EXCEPT !.stage = "aes_login"]]
                ELSE /\ tr' = tr
                     /\ obs' = ObsPost(o, IF tr.tokenUrl # "null" THEN "request_token"
                                          ELSE "request_app")
                     /\ q' = [q EXCEPT ![c] = [qq EXCEPT !.stage = "aes_request"]]
             /\ UNCHANGED <<queryLock, pc, frame>>
        ELSE IF NeedsHandshake(tr, expired)
        THEN \* KlapTransport.performHandshake up to the post of handshake1
             \E localSeed \in seeds :
               /\ tr' = [tr EXCEPT !.handshakeDone = FALSE, !.sessionExpireAt = NullAt,
                                   !.sessionCookie = "null"]
               /\ frame' = [frame EXCEPT ![c] = [NoFrame EXCEPT !.localSeed = localSeed]]
               /\ obs' = ObsPost(o, "handshake1")
               /\ q' = [q EXCEPT ![c] = [qq EXCEPT !.stage = "handshake1"]]
               /\ UNCHANGED <<queryLock, pc>>
        ELSE SendRequest(c, qq, NoFrame, tr, o)
  /\ UNCHANGED <<cam, cipher, emeter, disc, xor, factory, smart, protocol, transport, localAuthHash, timerQ, now, ticks>>

\* The handshake1 post ends: performHandshake1 checks the reply, performHandshake
\* stores the cookies and posts handshake2.
Handshake1Reply(c, replies) ==
  /\ q[c].stage = "handshake1"
  /\ \E reply \in replies :
       LET r == performHandshake1(transport, localAuthHash, frame[c].localSeed, reply)
       IN /\ frame' = [frame EXCEPT ![c].reply1 = reply, ![c].authHash = r.authHash]
          /\ IF r.err # "none"
             THEN AttemptFails(c, q[c], tr, obs, r.err, r.cause)
             ELSE /\ tr' = [tr EXCEPT
                              !.sessionCookie = IF reply.sid # "null" THEN reply.sid ELSE @,
                              !.sessionExpireAt = SessionExpireAt(now, reply.timeout)]
                  /\ obs' = ObsPost(obs, "handshake2")
                  /\ q' = [q EXCEPT ![c].stage = "handshake2"]
                  /\ UNCHANGED <<queryLock, pc>>
  /\ UNCHANGED <<cam, cipher, emeter, disc, xor, factory, smart, protocol, transport, localAuthHash, timerQ, now, ticks>>

\* The handshake2 post ends: on 200 the encryption session is created, the
\* handshake is done, and send() goes on to encrypt and post the request.
Handshake2Reply(c, replies, seq0s) ==
  /\ q[c].stage = "handshake2"
  /\ \E reply \in replies :
       LET post == HttpClientPost(reply)
       IN IF post.thrown # "none"
          THEN /\ AttemptFails(c, q[c], tr, obs, post.thrown, "hs2_net")
               /\ frame' = [frame EXCEPT ![c] = NoFrame]
          ELSE IF post.status # 200
          THEN /\ AttemptFails(c, q[c], tr, obs, "Kasa", "hs2_status")
               /\ frame' = [frame EXCEPT ![c] = NoFrame]
          ELSE \E seq0 \in seq0s :
                 SendRequest(c, q[c], frame[c],
                   [tr EXCEPT !.encryptionSession = NewSession(seq0, frame[c].authHash),
                              !.handshakeDone = TRUE],
                   [obs EXCEPT !.accMaxSess = NoAcc])
  /\ UNCHANGED <<cam, cipher, emeter, disc, xor, factory, smart, protocol, transport, localAuthHash, timerQ, now, ticks>>

\* The request post ends: send() returns the decrypted JSON or throws, and
\* _executeQuery returns it (Smart: after _handleResponseErrorCode).
RequestReply(c, replies) ==
  /\ q[c].stage = "request"
  /\ \E reply \in replies :
       LET post == HttpClientPost(reply)
           d == Decrypt(tr.encryptionSession, reply.body)
           t == [tr EXCEPT !.encryptionSession = d.session]
           o == [obs EXCEPT !.accMax = AccMax(@, frame[c].seq),
                            !.accMaxSess = AccMax(@, frame[c].seq)]
           e == IF protocol = "smart"
                THEN SmartHandleResponseErrorCode(reply.body, reply.code) ELSE "none"
       IN IF post.thrown # "none"
          THEN AttemptFails(c, q[c], tr, obs, post.thrown, "request_net")
          ELSE IF post.status = 403
          THEN AttemptFails(c, q[c], [tr EXCEPT !.handshakeDone = FALSE], obs,
                            "Retryable", "http403")
          ELSE IF post.status # 200
          THEN AttemptFails(c, q[c], tr, obs, "Kasa", "request_status")
          ELSE IF d.thrown # "none"
          THEN AttemptFails(c, q[c], t, o, "Kasa", "decrypt")
          ELSE IF e # "none"
          THEN AttemptFails(c, q[c], t, o, e, "error_code")
          ELSE Finish(c, t, [o EXCEPT !.last = Attempt(c, q[c], "ok", "none", t, FALSE, "none")])
  /\ frame' = [frame EXCEPT ![c] = NoFrame]
  /\ UNCHANGED <<cam, cipher, emeter, disc, xor, factory, smart, protocol, transport, localAuthHash, timerQ, now, ticks>>

\* A post of AesTransport ends: the handshake of send() or of the fallback of
\* performLogin, the login_device passthrough with the configured or with the
\* default credentials, or the passthrough of the caller's request.  send()
\* goes on to its next post, returns, or throws.
AesReply(c, replies) ==
  /\ q[c].stage \in {"aes_handshake", "aes_login", "aes_handshake_default",
                     "aes_login_default", "aes_request"}
  /\ \E reply \in replies :
       LET stage == q[c].stage
           fallback == stage \in {"aes_handshake_default", "aes_login_default"}
           raw == IF stage \in {"aes_handshake", "aes_handshake_default"}
                  THEN AesHandshakeError(reply)
                  ELSE IF stage = "aes_request" THEN AesPassthroughError(reply)
                  ELSE AesLoginError(reply)
           err == IF fallback /\ raw # "none" THEN FallbackError(raw) ELSE raw
           e == SmartHandleResponseErrorCode("json", reply.inner)
       IN /\ frame' = [frame EXCEPT ![c].respDict = reply]
          /\ IF stage = "aes_login" /\ raw = "Auth" /\ IsLoginError(reply)
             THEN \* the fallback: performHandshake up to its post
                  /\ tr' = [tr EXCEPT !.tokenUrl = "null", !.sessionExpireAt = NullAt,
                                      !.sessionCookie = "null"]
                  /\ obs' = ObsPost([obs EXCEPT !.contentLength = HandshakeContentLength,
                                            !.body = HandshakeBody],
                                    "handshake")
                  /\ q' = [q EXCEPT ![c].stage = "aes_handshake_default"]
                  /\ UNCHANGED <<queryLock, pc>>
             ELSE IF err # "none"
             THEN AttemptFails(c, q[c], AesAfterError(tr, err), obs, err, AesCause(reply))
             ELSE IF stage \in {"aes_handshake", "aes_handshake_default"}
             THEN /\ tr' = [tr EXCEPT
                              !.sessionCookie = IF reply.sid # "null" THEN reply.sid ELSE @,
                              !.sessionExpireAt = SessionExpireAt(now, reply.timeout),
                              !.state = "LOGIN_REQUIRED"]
                  /\ obs' = ObsPost(obs, "login")
                  /\ q' = [q EXCEPT ![c].stage = IF fallback THEN "aes_login_default"
                                                ELSE "aes_login"]
                  /\ UNCHANGED <<queryLock, pc>>
             ELSE IF stage \in {"aes_login", "aes_login_default"}
             THEN /\ tr' = [tr EXCEPT !.tokenUrl = "token", !.state = "ESTABLISHED"]
                  /\ obs' = ObsPost(obs, "request_token")
                  /\ q' = [q EXCEPT ![c].stage = "aes_request"]
                  /\ UNCHANGED <<queryLock, pc>>
             ELSE IF e # "none"
             THEN AttemptFails(c, q[c], tr, obs, e, "error_code")
             ELSE Finish(c, tr, [obs EXCEPT !.last = Attempt(c, q[c], "ok", "none", tr,
                                                            FALSE, "none")])
  /\ UNCHANGED <<cam, cipher, emeter, disc, xor, factory, smart, protocol, transport, localAuthHash, timerQ, now, ticks>>

\* The 1 s backoff timer of _query fires.
BackoffDone(c) ==
  /\ q[c].stage = "backoff"
  /\ q' = [q EXCEPT ![c].stage = "start"]
  /\ UNCHANGED <<cam, cipher, emeter, disc, xor, factory, smart, protocol, transport, localAuthHash, pc, queryLock, timerQ, tr, frame,
                 now, ticks, obs>>

\* The wall clock advances.
Tick ==
  /\ ticks < MaxTicks
  /\ ticks' = ticks + 1
  /\ now' = now + TickMs
  /\ UNCHANGED <<cam, cipher, emeter, disc, xor, factory, smart, protocol, transport, localAuthHash, pc, queryLock, timerQ, q, tr, frame,
                 obs>>

\* ------------------------------------------- SmartProtocol: what is queried
\* the methods queried: one whose result is a paged list, a plain one, and one
\* of the deny-list
Methods == {"get_list", "get_info", "getConnectStatus"}
ListMethods == {"get_list"}
FORCE_SINGLE_REQUEST == {"getConnectStatus", "scanApList"}

\* values of `result`: a key that is not there, undefined, null, a plain
\* object, an object with start_index, sum and a list of len entries, and the
\* error code object _handleResponseErrorCode puts in its place
Absent == [kind |-> "absent", code |-> 0, sum |-> 0, len |-> 0]
Undefined == [Absent EXCEPT !.kind = "undefined"]
Null == [Absent EXCEPT !.kind = "null"]
Object == [Absent EXCEPT !.kind = "object"]
List(sum, len) == [kind |-> "list", code |-> 0, sum |-> sum, len |-> len]
ErrorCodeResult(code) == [Absent EXCEPT !.kind = "error", !.code = code]
Truthy(result) == result.kind \in {"object", "list", "error"}

\* a response of the device, or a sub-response of a batch ("none": no method key)
Response(method, code, result) == [method |-> method, code |-> code, result |-> result]
BatchResponse(code, responses) == [code |-> code, responses |-> responses]

NoPage == [method |-> "none", entry |-> Absent, ret |-> "none"]
NoAnswer == [some |-> FALSE, code |-> 0]
NoFail == [attempt |-> 0, cause |-> "none", code |-> 0, size |-> 0, err |-> "none", reset |-> FALSE]
NoOut == [status |-> "none", err |-> "none"]

\* the protocol object after construction with batch size `size`, no query running
SmartIdle(size) ==
  [batchSize |-> size, request |-> <<>>, retry |-> 0, retryCount |-> 0, mode |-> "idle",
   k |-> 0, pending |-> <<>>, page |-> NoPage,
   multiResult |-> [m \in Methods |-> Absent],  \* the object the query returns
   answers |-> [m \in Methods |-> NoAnswer],    \* the error_code the device gave each method
   sent |-> <<>>,                               \* the requests of this attempt, in order
   broke |-> FALSE,                             \* a page came back empty
   fail |-> NoFail,                             \* the last failed attempt of this query
   out |-> NoOut]                               \* how the last query ended

\* SmartProtocol constructor: config.batchSize || DEFAULT_MULTI_REQUEST_BATCH_SIZE
ConfiguredBatchSizes == (1..MaxBatch) \cup {DEFAULT_MULTI_REQUEST_BATCH_SIZE}

\* Array.prototype.includes of an array of numbers
ArrayIncludes(numbers, x) == \E n \in numbers : StrictEquals(SmartErrorCodeMember(n), x)
\* Array.prototype.slice(a, b)
Slice(s, a, b) == SubSeq(s, a + 1, IF b < Len(s) THEN b ELSE Len(s))

\* _executeMultipleQuery: raiseOnError, multiRequests and the batches
RaiseOnError(requestCount) == requestCount = 1
MultiRequests(request) == SelectSeq(request, LAMBDA m : m \notin FORCE_SINGLE_REQUEST)
NumBatches(requestCount, step) == (requestCount + step - 1) \div step
Batch(request, step, k) == Slice(MultiRequests(request), (k - 1) * step, k * step)

\* _handleResponseErrorCode that raises whatever raiseOnError says
HandleResponseErrorCodeRaising(resp, raiseOnError) ==
  [thrown |-> SmartHandleResponseErrorCode("json", resp.code), resp |-> resp,
   errorCode |-> SmartErrorCodeFromInt(resp.code)]
\* SmartProtocol._handleResponseErrorCode(respDict, method, {raiseOnError}): the
\* error it throws, and respDict as it leaves it
HandleResponseErrorCode(resp, raiseOnError) ==
  LET errorCode == SmartErrorCodeFromInt(resp.code)
      e == SmartHandleResponseErrorCode("json", errorCode.value)
  IN IF e = "none" THEN [thrown |-> "none", resp |-> resp, errorCode |-> errorCode]
     ELSE IF ~raiseOnError
     THEN [thrown |-> "none", errorCode |-> errorCode,
           resp |-> [resp EXCEPT !.result = ErrorCodeResult(errorCode.value)]]
     ELSE [thrown |-> e, resp |-> resp, errorCode |-> errorCode]

\* a batch size that goes back to the default when it is not demoted
BatchSizeRestored(size, demote) ==
  IF demote THEN 1 ELSE DEFAULT_MULTI_REQUEST_BATCH_SIZE
\* _executeMultipleQuery, the catch around the batch's error code check
BatchSizeAfter(size, demote) == IF demote THEN 1 ELSE size
\* ... and its test: a DeviceError whose errorCode, the object fromInt returned,
\* is included in the array of the two numbers, while batching is on
Demote(err, code, size) ==
  /\ err = "Device"
  /\ ArrayIncludes({JSON_DECODE_FAIL_ERROR, INTERNAL_UNKNOWN_ERROR}, SmartErrorCodeFromInt(code))
  /\ size # 1

\* a page loop that does not look at the length of the list
NeedsPageAnyLength(entry) == entry.kind = "list" /\ entry.sum # 0
\* _handleResponseLists: the guard and the while condition
NeedsPage(entry) == entry.kind = "list" /\ entry.sum # 0 /\ entry.len < entry.sum

\* -------------------------------------- SmartProtocol: the frames of a query
\* transport.send(getSmartRequest(...)) is called
Send(s, kind, methods, start) ==
  [s EXCEPT !.sent = Append(@, [kind |-> kind, methods |-> methods, start |-> start])]
Answered(s, resp) ==
  [s EXCEPT !.answers[resp.method] = [some |-> TRUE, code |-> resp.code]]

\* _query returns the result of _executeQuery
Return(s) ==
  [s EXCEPT !.mode = "idle", !.k = 0, !.pending = <<>>, !.page = NoPage,
            !.out = [status |-> "returned", err |-> "none"]]

\* the step-1 loop of _executeMultipleQuery, at multiRequests[i]
Step1(s, i) ==
  IF i > Len(MultiRequests(s.request)) THEN Return(s)
  ELSE Send([s EXCEPT !.mode = "step1", !.k = i], "single",
            <<MultiRequests(s.request)[i]>>, 0)

\* the final loop of _executeMultipleQuery: requery what is not in multiResult
Requery(s) ==
  LET missing == SelectSeq(s.request, LAMBDA m : s.multiResult[m].kind = "absent")
  IN IF missing = <<>> THEN Return(s)
     ELSE Send([s EXCEPT !.mode = "requery"], "single", <<Head(missing)>>, 0)

\* the loop over the batches, after batch s.k
NextBatch(s) ==
  IF s.k < NumBatches(Len(s.request), s.batchSize)
  THEN Send([s EXCEPT !.mode = "batch", !.k = @ + 1], "multi",
            Batch(s.request, s.batchSize, s.k + 1), 0)
  ELSE Requery(s)

\* _executeQuery, from its top to its first send
ExecuteQuery(s0) ==
  LET s == [s0 EXCEPT !.multiResult = [m \in Methods |-> Absent],
                      !.answers = [m \in Methods |-> NoAnswer],
                      !.sent = <<>>, !.pending = <<>>, !.k = 0, !.page = NoPage,
                      !.broke = FALSE]
  IN IF Len(s.request) = 1
     THEN Send([s EXCEPT !.mode = "single"], "single", s.request, 0)
     ELSE IF s.batchSize = 1 THEN Step1(s, 1)
     ELSE NextBatch(s)

\* _query: an attempt threw err, raised for error code `code` at `cause`
Fail(s, err, cause, code, size) ==
  LET h == SmartCatch(err, s.retry, s.retryCount)
      f == [s EXCEPT !.fail = [attempt |-> s.retry + 1, cause |-> cause, code |-> code,
                               size |-> size, err |-> err, reset |-> h.reset],
                     !.k = 0, !.pending = <<>>, !.page = NoPage]
  IN IF h.throw \/ s.retry + 1 > s.retryCount
     THEN [f EXCEPT !.mode = "idle",
                    !.out = [status |-> "thrown",
                             err |-> IF h.throw THEN err ELSE "Unreachable"]]
     ELSE IF h.backoff THEN [f EXCEPT !.retry = @ + 1, !.mode = "backoff"]
     ELSE ExecuteQuery([f EXCEPT !.retry = @ + 1])

RECURSIVE ProcessResponses(_)
RECURSIVE HandleResponseLists(_, _, _, _)
\* _handleResponseLists has returned for `method`: _executeQuery returns, or
\* _executeMultipleQuery stores the result and goes on with the responses
AfterLists(s, method, entry, ret) ==
  LET s2 == [s EXCEPT !.multiResult[method] = entry, !.page = NoPage]
  IN IF ret = "single" THEN Return(s2) ELSE ProcessResponses(s2)

\* _handleResponseLists, up to its next send or its return
HandleResponseLists(s, method, entry, ret) ==
  IF NeedsPage(entry)
  THEN Send([s EXCEPT !.mode = "page",
                      !.page = [method |-> method, entry |-> entry, ret |-> ret]],
            "single", <<method>>, entry.len)
  ELSE AfterLists(s, method, entry, ret)

\* the loop over the responses of a batch, up to the next send
ProcessResponses(s) ==
  IF s.pending = <<>> THEN NextBatch(s)
  ELSE LET r == Head(s.pending)
           s1 == [s EXCEPT !.pending = Tail(@)]
           h == HandleResponseErrorCode(r, RaiseOnError(Len(s.request)))
           result == IF Truthy(h.resp.result) THEN h.resp.result ELSE Null
       IN IF r.method = "none" THEN ProcessResponses(s1)
          ELSE IF h.thrown # "none"
          THEN Fail(Answered(s1, r), h.thrown, "sub", h.errorCode.value, s.batchSize)
          ELSE HandleResponseLists(Answered(s1, r), r.method, result, "batch")

\* ------------------------------------------- SmartProtocol: what the device says
ErrorCodes == {-1, SESSION_EXPIRED}
\* ... and -7, which is the value of no static member of SmartErrorCode
DeviceCodes == ErrorCodes \cup {-7}
BatchErrorCodes == {JSON_DECODE_FAIL_ERROR, INTERNAL_UNKNOWN_ERROR, SESSION_EXPIRED}
Lists == {List(p[1], p[2]) : p \in {pp \in (0..MaxSum) \X (0..MaxSum) : pp[2] <= pp[1]}}
Results(m) == IF m \in ListMethods THEN Lists \cup {Undefined} ELSE {Object, Undefined}
\* answers to the single request of method m
ResponsesWith(m, codes) ==
  {Response(m, 0, r) : r \in Results(m)} \cup {Response(m, e, Undefined) : e \in codes}
Responses(m) == ResponsesWith(m, ErrorCodes)
\* sub-responses to method m in a batch: some firmware leaves the method key out
SubResponses(m) == Responses(m) \cup {Response("none", 0, Object)}
AllSubResponses == UNION {SubResponses(m) : m \in Methods}
\* answers to a batch of methods ms: in order, and possibly cut short
BatchResponses(ms) ==
  {BatchResponse(e, <<>>) : e \in BatchErrorCodes}
  \cup {BatchResponse(0, rs) : rs \in
          UNION {{r \in [1..n -> AllSubResponses] : \A j \in 1..n : r[j] \in SubResponses(ms[j])}
                 : n \in 0..Len(ms)}}
\* answers to the request of a page from start_index `from` of a list of `sum`
PageResponses(m, sum, from) ==
  {Response(m, 0, List(sum, n)) : n \in 0..(sum - from)}
  \cup {Response(m, 0, Undefined)} \cup {Response(m, e, Undefined) : e \in ErrorCodes}
\* the requests of a query: the keys of the request object, in order
RECURSIVE Distinct(_)
Distinct(s) ==
  Len(s) <= 1 \/ ((\A j \in 2..Len(s) : s[j] # s[1]) /\ Distinct(Tail(s)))
Requests ==
  {r \in UNION {[1..n -> Methods] : n \in 1..Cardinality(Methods)} : Distinct(r)}

\* ------------------------------------------------ SmartProtocol: the steps
\* the step of the protocol takes the query to s: reset() is called if the
\* attempt failed and the catch block resets
SmartStep(s) ==
  /\ smart' = s
  /\ tr' = IF s.fail # smart.fail /\ s.fail.reset THEN Reset(transport, tr) ELSE tr
  /\ UNCHANGED <<cam, cipher, emeter, disc, xor, factory, protocol, transport, localAuthHash, pc, queryLock, timerQ, q, frame, now,
                 ticks, obs>>

\* query(request, retryCount) is called and runs up to its first send
SmartCall(requests, retryCounts) ==
  /\ smart.mode = "idle"
  /\ \E request \in requests, n \in retryCounts :
       SmartStep(ExecuteQuery([smart EXCEPT !.request = request, !.retry = 0,
                                            !.retryCount = n, !.fail = NoFail,
                                            !.out = NoOut]))

\* the answer to the single request of _executeQuery arrives
SmartSingleReplyOf(codes) ==
  /\ smart.mode = "single"
  /\ \E resp \in ResponsesWith(smart.request[1], codes) :
       LET h == HandleResponseErrorCode(resp, TRUE)
           s == Answered(smart, resp)
       IN SmartStep(IF h.thrown # "none"
                    THEN Fail(s, h.thrown, "single", h.errorCode.value, smart.batchSize)
                    ELSE IF Truthy(h.resp.result)
                    THEN HandleResponseLists(s, resp.method, h.resp.result, "single")
                    ELSE AfterLists(s, resp.method, h.resp.result, "single"))

SmartSingleReply == SmartSingleReplyOf(ErrorCodes)

\* the answer to a request of the step-1 loop arrives
SmartStep1Reply ==
  /\ smart.mode = "step1"
  /\ \E resp \in Responses(MultiRequests(smart.request)[smart.k]) :
       LET h == HandleResponseErrorCode(resp, RaiseOnError(Len(smart.request)))
           s == Answered(smart, resp)
       IN SmartStep(IF h.thrown # "none"
                    THEN Fail(s, h.thrown, "single", h.errorCode.value, smart.batchSize)
                    ELSE Step1([s EXCEPT !.multiResult[resp.method] = h.resp.result],
                               smart.k + 1))

\* the answer to a multipleRequest arrives
SmartBatchReply ==
  /\ smart.mode = "batch"
  /\ \E resp \in BatchResponses(Batch(smart.request, smart.batchSize, smart.k)) :
       LET e == SmartHandleResponseErrorCode("json", resp.code)
           demote == Demote(e, resp.code, smart.batchSize)
           s == [smart EXCEPT !.batchSize = BatchSizeAfter(@, demote)]
       IN SmartStep(IF e # "none"
                    THEN Fail(s, IF demote THEN "Retryable" ELSE e, "batch", resp.code,
                              smart.batchSize)
                    ELSE ProcessResponses([s EXCEPT !.pending = resp.responses]))

\* the answer to a request of the final loop arrives
SmartRequeryReply ==
  /\ smart.mode = "requery"
  /\ \E resp \in Responses(smart.sent[Len(smart.sent)].methods[1]) :
       LET h == HandleResponseErrorCode(resp, RaiseOnError(Len(smart.request)))
           s == Answered(smart, resp)
       IN SmartStep(IF h.thrown # "none"
                    THEN Fail(s, h.thrown, "single", h.errorCode.value, smart.batchSize)
                    ELSE Requery([s EXCEPT !.multiResult[resp.method] = h.resp.result]))

\* the answer to a page request of _handleResponseLists arrives:
\* _executeQuery raises for its error code; the loop breaks on an empty page,
\* otherwise pushes the page and goes round
SmartPageReply ==
  /\ smart.mode = "page"
  /\ \E resp \in PageResponses(smart.page.method, smart.page.entry.sum, smart.page.entry.len) :
       LET h == HandleResponseErrorCode(resp, TRUE)
           pg == smart.page
           nextBatch == h.resp.result
       IN SmartStep(IF h.thrown # "none"
                    THEN Fail(smart, h.thrown, "page", h.errorCode.value, smart.batchSize)
                    ELSE IF nextBatch.kind = "undefined"
                    THEN Fail(smart, "Js", "page", 0, smart.batchSize)
                    ELSE IF nextBatch.kind # "list" \/ nextBatch.len = 0
                    THEN AfterLists([smart EXCEPT !.broke = TRUE], pg.method, pg.entry, pg.ret)
                    ELSE HandleResponseLists(smart, pg.method,
                                             [pg.entry EXCEPT !.len = @ + nextBatch.len],
                                             pg.ret))

\* the backoff timer of _query fires and the next attempt starts
SmartBackoffDone ==
  /\ smart.mode = "backoff"
  /\ SmartStep(ExecuteQuery(smart))

\* ------------------------------------------------------------ devicefactory
\* the variables of the protocol and transport instance
stackVars ==
  <<protocol, transport, localAuthHash, pc, queryLock, timerQ, q, tr, frame, now, ticks, obs>>

\* DeviceFamily and DeviceEncryptionType; "" is a connection type without family
IotFamilies == {"IOT.SMARTPLUGSWITCH", "IOT.SMARTBULB", "IOT.IPCAMERA"}
SmartFamilies ==
  {"SMART.KASAPLUG", "SMART.KASASWITCH", "SMART.TAPOPLUG", "SMART.TAPOBULB",
   "SMART.TAPOSWITCH", "SMART.TAPOHUB", "SMART.KASAHUB", "SMART.IPCAMERA",
   "SMART.TAPOROBOVAC", "SMART.TAPOCHIME", "SMART.TAPODOORBELL"}
DeviceFamilies == IotFamilies \cup SmartFamilies \cup {""}
EncryptionTypes == {"KLAP", "AES", "XOR"}
ConnectionTypes == [deviceFamily : DeviceFamilies, encryptionType : EncryptionTypes,
                    https : BOOLEAN]

\* the module bindings of devicefactory.js: a class that protocols/index.js or
\* transports/index.js exports, or undefined for a name they do not export
Exported ==
  {"IotProtocol", "SmartProtocol", "SmartCamProtocol",
   "XorTransport", "AesTransport", "KlapTransport", "KlapTransportV2"}
Binding(name) == IF name \in Exported THEN name ELSE "undefined"

NoProtocol == [protocol |-> "null", transport |-> "null"]
\* "if (!protocolCls || !transportCls) return null", else new protocolCls(...)
NewProtocol(protocolCls, transportCls) ==
  IF protocolCls = "undefined" \/ transportCls = "undefined" THEN NoProtocol
  ELSE [protocol |-> protocolCls, transport |-> transportCls]

\* a table that is looked up without the .HTTPS suffix
SupportedIgnoringHttps(protocolName, encryptionType, https) ==
  IF protocolName = "IOT" /\ encryptionType = "XOR" THEN <<"IotProtocol", "XorTransport">>
  ELSE IF protocolName = "IOT" /\ encryptionType = "KLAP" THEN <<"IotProtocol", "KlapTransport">>
  ELSE IF protocolName = "SMART" /\ encryptionType = "AES" THEN <<"SmartProtocol", "AesTransport">>
  ELSE IF protocolName = "SMART" /\ encryptionType = "KLAP" THEN <<"SmartProtocol", "KlapTransportV2">>
  ELSE <<>>
\* supportedDeviceProtocols[protocolName.encryptionType(.HTTPS)]: <<>> for no entry
SupportedDeviceProtocols(protocolName, encryptionType, https) ==
  LET key == <<protocolName, encryptionType, https>>
  IN IF key = <<"IOT", "XOR", FALSE>> THEN <<"IotProtocol", "XorTransport">>
     ELSE IF key = <<"IOT", "KLAP", FALSE>> THEN <<"IotProtocol", "KlapTransport">>
     ELSE IF key = <<"SMART", "AES", FALSE>> THEN <<"SmartProtocol", "AesTransport">>
     ELSE IF key = <<"SMART", "KLAP", FALSE>> THEN <<"SmartProtocol", "KlapTransportV2">>
     ELSE IF key = <<"SMART", "KLAP", TRUE>> THEN <<"SmartProtocol", "KlapTransportV2">>
     ELSE IF key = <<"SMART", "AES", TRUE>> THEN <<"SmartCamProtocol", "SslAesTransport">>
     ELSE <<>>

\* getProtocol({config, strict})
getProtocol(ctype, strict) ==
  LET protocolName == IF ctype.deviceFamily \in IotFamilies THEN "IOT" ELSE "SMART"
      protTranCls ==
        SupportedDeviceProtocols(protocolName, ctype.encryptionType, ctype.https)
  IN IF ctype.deviceFamily = "" THEN NoProtocol
     ELSE IF ctype.deviceFamily \in {"SMART.IPCAMERA", "SMART.TAPODOORBELL"}
     THEN IF strict /\ ctype.encryptionType # "AES" THEN NoProtocol
          ELSE NewProtocol(Binding("SmartCamProtocol"), Binding("SslAesTransport"))
     ELSE IF ctype.deviceFamily = "IOT.IPCAMERA"
     THEN IF strict /\ ctype.encryptionType # "XOR" THEN NoProtocol
          ELSE NewProtocol(Binding("IotProtocol"), Binding("LinkieTransportV2"))
     ELSE IF ctype.deviceFamily = "SMART.TAPOROBOVAC" /\ ctype.encryptionType = "AES"
     THEN NewProtocol(Binding("SmartProtocol"), Binding("SslTransport"))
     ELSE IF protTranCls = <<>> THEN NoProtocol
     ELSE NewProtocol(Binding(protTranCls[1]), Binding(protTranCls[2]))

\* getDeviceClassFromFamily(deviceFamily, {https}) finds a class: the table, or
\* SmartDevice for every other SMART family
HasDeviceClass(deviceFamily, https) ==
  \/ deviceFamily \in SmartFamilies
  \/ deviceFamily \in {"IOT.SMARTPLUGSWITCH", "IOT.SMARTBULB"} /\ ~https

FactoryIdle ==
  [op |-> "none", ctype |-> [deviceFamily |-> "", encryptionType |-> "XOR", https |-> FALSE],
   strict |-> FALSE, protocol |-> NoProtocol, contacted |-> FALSE, closed |-> FALSE,
   outcome |-> "none"]

\* getProtocol({config, strict}) is called and returns
FactoryGetProtocol ==
  /\ factory.outcome # "connecting"
  /\ \E ctype \in ConnectionTypes, strict \in BOOLEAN :
       factory' = [FactoryIdle EXCEPT !.op = "getProtocol", !.ctype = ctype,
                                      !.strict = strict,
                                      !.protocol = getProtocol(ctype, strict),
                                      !.outcome = "returned"]
  /\ UNCHANGED <<cam, cipher, emeter, disc, xor, smart, stackVars>>

\* connect({config}) is called: it throws UnsupportedDeviceError for no protocol
\* (or, in _connect, for no device class), else it queries the device
FactoryConnect ==
  /\ factory.outcome # "connecting"
  /\ \E ctype \in ConnectionTypes :
       LET p == getProtocol(ctype, FALSE)
           c == [FactoryIdle EXCEPT !.op = "connect", !.ctype = ctype, !.protocol = p]
       IN factory' =
            IF p = NoProtocol THEN [c EXCEPT !.outcome = "UnsupportedDeviceError"]
            ELSE IF p.transport # "XorTransport"
                    /\ ~HasDeviceClass(ctype.deviceFamily, ctype.https)
            THEN [c EXCEPT !.outcome = "UnsupportedDeviceError", !.closed = TRUE]
            ELSE [c EXCEPT !.outcome = "connecting", !.contacted = TRUE]
  /\ UNCHANGED <<cam, cipher, emeter, disc, xor, smart, stackVars>>

\* the query or update of _connect ends: the device is returned, or connect
\* closes the protocol and throws the error
FactoryConnected ==
  /\ factory.outcome = "connecting"
  /\ \E err \in {"none", "Timeout", "Auth", "Kasa"} :
       factory' = IF err = "none" THEN [factory EXCEPT !.outcome = "device"]
                  ELSE [factory EXCEPT !.outcome = err, !.closed = TRUE]
  /\ UNCHANGED <<cam, cipher, emeter, disc, xor, smart, stackVars>>

\* ------------------------------------------------------------ XorEncryption
\* A string is a sequence of UTF-16 code units, a Buffer a sequence of bytes.
Chars == {<<123>>, <<233>>, <<8364>>, <<55357, 56832>>}   \* { , e-acute, euro, U+1F600

RECURSIVE Strings(_)
Strings(n) ==
  IF n = 0 THEN {<<>>}
  ELSE Strings(n - 1) \cup {s \o c : s \in Strings(n - 1), c \in Chars}

Plaintexts == Strings(MaxChars)

IsHigh(u) == u >= 55296 /\ u <= 56319
IsLow(u) == u >= 56320 /\ u <= 57343

\* Buffer.from(string, 'utf8')
RECURSIVE Utf8Encode(_)
Utf8Encode(str) ==
  IF str = <<>> THEN <<>>
  ELSE LET u == Head(str) IN
    IF u < 128 THEN <<u>> \o Utf8Encode(Tail(str))
    ELSE IF u < 2048 THEN <<192 + (u \div 64), 128 + (u % 64)>> \o Utf8Encode(Tail(str))
    ELSE IF IsHigh(u) /\ Len(str) > 1 /\ IsLow(str[2]) THEN
      LET cp == 65536 + (u - 55296) * 1024 + (str[2] - 56320)
      IN  <<240 + (cp \div 262144), 128 + ((cp \div 4096) % 64),
            128 + ((cp \div 64) % 64), 128 + (cp % 64)>> \o Utf8Encode(Tail(Tail(str)))
    ELSE IF IsHigh(u) \/ IsLow(u) THEN <<239, 191, 189>> \o Utf8Encode(Tail(str))
    ELSE <<224 + (u \div 4096), 128 + ((u \div 64) % 64), 128 + (u % 64)>>
           \o Utf8Encode(Tail(str))

IsCont(bytes, i) == Len(bytes) >= i /\ bytes[i] >= 128 /\ bytes[i] < 192

RECURSIVE Drop(_, _)
Drop(seq, n) == IF n = 0 \/ seq = <<>> THEN seq ELSE Drop(Tail(seq), n - 1)

\* buffer.toString('utf8'): a byte that starts no complete sequence decodes
\* to U+FFFD
RECURSIVE Utf8Decode(_)
Utf8Decode(bytes) ==
  IF bytes = <<>> THEN <<>>
  ELSE LET b == Head(bytes) IN
    IF b < 128 THEN <<b>> \o Utf8Decode(Tail(bytes))
    ELSE IF b >= 194 /\ b < 224 /\ IsCont(bytes, 2) THEN
      <<(b - 192) * 64 + (bytes[2] - 128)>> \o Utf8Decode(Drop(bytes, 2))
    ELSE IF b >= 224 /\ b < 240 /\ IsCont(bytes, 2) /\ IsCont(bytes, 3) THEN
      <<(b - 224) * 4096 + (bytes[2] - 128) * 64 + (bytes[3] - 128)>>
        \o Utf8Decode(Drop(bytes, 3))
    ELSE IF b >= 240 /\ b < 245 /\ IsCont(bytes, 2) /\ IsCont(bytes, 3)
            /\ IsCont(bytes, 4) THEN
      LET cp == (b - 240) * 262144 + (bytes[2] - 128) * 4096
                + (bytes[3] - 128) * 64 + (bytes[4] - 128)
      IN  <<55296 + ((cp - 65536) \div 1024), 56320 + ((cp - 65536) % 1024)>>
            \o Utf8Decode(Drop(bytes, 4))
    ELSE <<65533>> \o Utf8Decode(Tail(bytes))

\* a ^ b on bytes
RECURSIVE BitXor(_, _)
BitXor(a, b) ==
  IF a = 0 THEN b
  ELSE IF b = 0 THEN a
  ELSE (((a % 2) + (b % 2)) % 2) + 2 * BitXor(a \div 2, b \div 2)

\* a payload generator that never advances its key
RECURSIVE XorPayloadFixedKey(_, _)
XorPayloadFixedKey(key, unencrypted) ==
  IF unencrypted = <<>> THEN <<>>
  ELSE <<BitXor(key, Head(unencrypted))>> \o XorPayloadFixedKey(key, Tail(unencrypted))

\* XorEncryption._xorPayload: key = key ^ byte; yield key
RECURSIVE XorPayload(_, _)
XorPayload(key, unencrypted) ==
  IF unencrypted = <<>> THEN <<>>
  ELSE LET k == BitXor(key, Head(unencrypted))
       IN  <<k>> \o XorPayload(k, Tail(unencrypted))

\* XorEncryption._xorEncryptedPayload: plain = key ^ byte; key = byte
RECURSIVE XorEncryptedPayload(_, _)
XorEncryptedPayload(key, ciphertext) ==
  IF ciphertext = <<>> THEN <<>>
  ELSE <<BitXor(key, Head(ciphertext))>>
         \o XorEncryptedPayload(Head(ciphertext), Tail(ciphertext))

\* buffer.writeUInt32BE(n, 0) and buffer.readUInt32BE(0)
WriteUInt32BE(n) ==
  <<(n \div 16777216) % 256, (n \div 65536) % 256, (n \div 256) % 256, n % 256>>
ReadUInt32BE(b) == b[1] * 16777216 + b[2] * 65536 + b[3] * 256 + b[4]

\* XorEncryption.encrypt(request)
XorEncrypt(request) ==
  LET plainBytes == Utf8Encode(request)
  IN  WriteUInt32BE(Len(plainBytes)) \o XorPayload(INITIALIZATION_VECTOR, plainBytes)

\* XorEncryption.decrypt(ciphertext)
XorDecrypt(ciphertext) ==
  Utf8Decode(XorEncryptedPayload(INITIALIZATION_VECTOR, ciphertext))

\* ------------------------------------------------------------- XorTransport
\* a JavaScript value that is a string or a number
JsString(s) == [t |-> "string", s |-> s, n |-> 0]
JsNumber(n) == [t |-> "number", s |-> "", n |-> n]
JsUndefined == [t |-> "undefined", s |-> "", n |-> 0]

NO_RETRY_ERRORS == {JsString("EHOSTDOWN"), JsString("EHOSTUNREACH"), JsString("ECONNREFUSED")}

\* the errors a connection attempt rejects with: the timer's Error, and the
\* socket's 'error' event, whose code is a string and whose errno is the
\* negated system error number
ConnectTimeout ==
  [message |-> "Connection timeout", code |-> JsUndefined, errno |-> JsUndefined]
SystemError(code, errno) ==
  [message |-> "connect " \o code, code |-> JsString(code), errno |-> JsNumber(0 - errno)]
ConnectErrors ==
  {ConnectTimeout, SystemError("ECONNREFUSED", 111), SystemError("EHOSTDOWN", 112),
   SystemError("EHOSTUNREACH", 113), SystemError("ECONNRESET", 104),
   SystemError("ENETUNREACH", 101)}

\* the catch block of XorTransport.send around _connect
ConnectException(error) ==
  IF error.message = "Connection timeout" THEN "Timeout"
  ELSE IF error.code = JsString("ECONNREFUSED") THEN "Kasa"
  ELSE IF error.errno \in NO_RETRY_ERRORS THEN "Kasa"
  ELSE "Retryable"

XorIdle ==
  [pc |-> "idle", request |-> <<>>, retry |-> 0, retryCount |-> 0,
   failures |-> <<>>, wire |-> <<>>, socket |-> FALSE, response |-> <<>>,
   out |-> "none"]

\* IotProtocol.query(request, retryCount) on a fresh protocol over the XOR
\* transport, up to the pending connection of the first attempt
XorQuery ==
  /\ xor.pc = "idle"
  /\ \E request \in Plaintexts, retryCount \in RetryCounts :
       xor' = [XorIdle EXCEPT !.pc = "connecting", !.request = request,
                              !.retryCount = retryCount]
  /\ UNCHANGED <<cam, cipher, emeter, disc, factory, smart, stackVars>>

\* the socket connects: send() goes on to _executeSend, which writes the
\* encrypted request
XorConnected ==
  /\ xor.pc = "connecting"
  /\ xor' = [xor EXCEPT !.pc = "sending", !.socket = TRUE,
                        !.wire = XorEncrypt(xor.request)]
  /\ UNCHANGED <<cam, cipher, emeter, disc, factory, smart, stackVars>>

\* the connection attempt fails: send() resets and throws, and the catch block
\* of _query throws, continues with the next attempt, or sleeps first
XorConnectFailed ==
  /\ xor.pc = "connecting"
  /\ \E error \in ConnectErrors :
       LET c == IotCatch(ConnectException(error), xor.retry, xor.retryCount)
           failed == [xor EXCEPT !.failures = Append(@, error.code.s), !.socket = FALSE]
       IN  xor' = IF c.throw
                  THEN [failed EXCEPT !.pc = "thrown", !.out = ConnectException(error)]
                  ELSE [failed EXCEPT !.pc = IF c.backoff THEN "backoff" ELSE "connecting",
                                      !.retry = @ + 1]
  /\ UNCHANGED <<cam, cipher, emeter, disc, factory, smart, stackVars>>

\* the sleep after a timeout ends and the next attempt starts
XorBackoffDone ==
  /\ xor.pc = "backoff"
  /\ xor' = [xor EXCEPT !.pc = "connecting"]
  /\ UNCHANGED <<cam, cipher, emeter, disc, factory, smart, stackVars>>

\* a device that sends the frame back: onData reads the length header, slices
\* the payload and decrypts it
XorEcho ==
  /\ xor.pc = "sending"
  /\ LET responseBuffer == xor.wire
         expectedLength == ReadUInt32BE(SubSeq(responseBuffer, 1, BLOCK_SIZE))
     IN  /\ Len(responseBuffer) >= BLOCK_SIZE + expectedLength
         /\ xor' = [xor EXCEPT !.pc = "returned", !.out = "response",
                      !.response = XorDecrypt(SubSeq(responseBuffer, BLOCK_SIZE + 1,
                                                     BLOCK_SIZE + expectedLength))]
  /\ UNCHANGED <<cam, cipher, emeter, disc, factory, smart, stackVars>>

\* the caller is done with the result and the protocol is closed
XorClose ==
  /\ xor.pc \in {"returned", "thrown"}
  /\ xor' = XorIdle
  /\ UNCHANGED <<cam, cipher, emeter, disc, factory, smart, stackVars>>

\* ---------------------------------------------------------------- discovery
Broadcast == "255.255.255.255"
IPs == {"10.0.0.1", "10.0.0.2"}
Targets == {Broadcast, "10.0.0.1"}

\* what a datagram holds: a reply _getDiscoveryJsonLegacy parses, one only
\* _getDiscoveryJson parses, or bytes neither parses
Datagrams == {"legacy", "smart", "garbage"}

\* how building the device ends: it returns, or throws one of these errors
\* (message: the words of error.message)
Built == [name |-> "built", classes |-> {}, message |-> <<>>]
UnsupportedDevice ==
  [name |-> "UnsupportedDeviceError", classes |-> {"KasaException", "UnsupportedDeviceError"},
   message |-> <<"Unsupported", "device", "type">>]
Authentication ==
  [name |-> "AuthenticationError",
   classes |-> {"KasaException", "DeviceError", "AuthenticationError"},
   message |-> <<"Authentication", "failed">>]
ConnectTimedOut ==
  [name |-> "TimeoutError", classes |-> {"KasaException", "TimeoutError"},
   message |-> <<"Timeout", "after", "5", "seconds", "connecting", "to", "the", "device:",
                 "Connection", "timeout">>]
ConnectRefused ==
  [name |-> "KasaException", classes |-> {"KasaException"},
   message |-> <<"Unable", "to", "connect", "to", "the", "device:", "connect",
                 "ECONNREFUSED">>]
ConnectRetryable ==
  [name |-> "_RetryableError", classes |-> {"KasaException", "DeviceError", "_RetryableError"},
   message |-> <<"Unable", "to", "connect", "to", "the", "device:", "connect",
                 "EHOSTUNREACH">>]
NotALibraryError ==
  [name |-> "TypeError", classes |-> {}, message |-> <<"info.device_type.toLowerCase", "is",
                                                       "not", "a", "function">>]

\* _getDeviceInstanceLegacy connects to the device; _getDeviceInstance builds
\* the device from the discovery info without connecting
BuildOutcomes(data) ==
  IF data = "legacy"
  THEN {Built, UnsupportedDevice, Authentication, ConnectTimedOut, ConnectRefused,
        ConnectRetryable, NotALibraryError}
  ELSE {Built, UnsupportedDevice, NotALibraryError}

\* error.message.includes(word)
Includes(message, word) == \E i \in DOMAIN message : message[i] = word

\* a catch block that files a timeout with the other library errors
BucketWithoutStub(outcome) ==
  IF outcome = Built THEN "device"
  ELSE IF "UnsupportedDeviceError" \in outcome.classes THEN "unsupported"
  ELSE IF outcome.name = "AuthenticationError" THEN "requiresAuth"
  ELSE IF "KasaException" \in outcome.classes THEN "invalid"
  ELSE "rethrown"

\* the catch block of datagramReceived, and the code after it
Bucket(outcome) ==
  IF outcome = Built THEN "device"
  ELSE IF "UnsupportedDeviceError" \in outcome.classes THEN "unsupported"
  ELSE IF outcome.name = "AuthenticationError" THEN "requiresAuth"
  ELSE IF Includes(outcome.message, "timeout") THEN "connectionTimeout"
  ELSE IF "KasaException" \in outcome.classes THEN "invalid"
  ELSE "rethrown"

\* a seen-set that never holds anything
SeenNever(seenHosts, ip) == FALSE
\* this.seenHosts.has(ip)
Seen(seenHosts, ip) == ip \in seenHosts

\* _connectWithBruteForce: protocolAttempts
ProtocolAttempt(deviceFamily, encryptionType, https, httpPort) ==
  [ctype |-> [deviceFamily |-> deviceFamily, encryptionType |-> encryptionType,
              https |-> https],
   httpPort |-> httpPort]
protocolAttempts ==
  << ProtocolAttempt("SMART.KASASWITCH", "KLAP", FALSE, 80),
     ProtocolAttempt("SMART.KASASWITCH", "AES", FALSE, 80),
     ProtocolAttempt("SMART.KASASWITCH", "KLAP", FALSE, 0),
     ProtocolAttempt("SMART.TAPOSWITCH", "KLAP", FALSE, 0),
     ProtocolAttempt("SMART.KASAPLUG", "KLAP", FALSE, 0),
     ProtocolAttempt("SMART.TAPOPLUG", "KLAP", FALSE, 0),
     ProtocolAttempt("SMART.KASASWITCH", "AES", FALSE, 0),
     ProtocolAttempt("SMART.TAPOSWITCH", "AES", FALSE, 0),
     ProtocolAttempt("SMART.KASAPLUG", "AES", FALSE, 0),
     ProtocolAttempt("SMART.TAPOPLUG", "AES", FALSE, 0),
     ProtocolAttempt("IOT.SMARTPLUGSWITCH", "XOR", FALSE, 0),
     ProtocolAttempt("IOT.SMARTBULB", "XOR", FALSE, 0),
     ProtocolAttempt("SMART.KASASWITCH", "KLAP", TRUE, 0),
     ProtocolAttempt("SMART.TAPOSWITCH", "KLAP", TRUE, 0) >>

\* the loop of _connectWithBruteForce from attempt i on: the first attempt
\* getProtocol has a protocol for, or one past the end
RECURSIVE NextAttempt(_)
NextAttempt(i) ==
  IF i > Len(protocolAttempts) THEN i
  ELSE IF getProtocol(protocolAttempts[i].ctype, FALSE) = NoProtocol THEN NextAttempt(i + 1)
  ELSE i

DiscIdle ==
  [mode |-> "idle", target |-> Broadcast, seenHosts |-> {},
   pending |-> [ip \in IPs |-> "none"],
   discoveredDevices |-> [ip \in IPs |-> "none"],
   unsupportedDeviceExceptions |-> {}, invalidDeviceExceptions |-> {},
   targetDiscovered |-> FALSE, socket |-> FALSE,
   received |-> 0, rinfo |-> "none", processed |-> [ip \in IPs |-> 0], dropped |-> {},
   outcome |-> [ip \in IPs |-> "none"],
   timedOut |-> FALSE, result |-> "none", attempt |-> 0, failed |-> <<>>]

\* discoverSingle after waitForDiscoveryToComplete has resolved
AfterComplete(d) ==
  IF d.discoveredDevices[d.target] # "none"
    THEN [d EXCEPT !.mode = "done", !.result = "device"]
  ELSE IF d.target \in d.unsupportedDeviceExceptions
    THEN [d EXCEPT !.mode = "done", !.result = "UnsupportedDeviceError"]
  ELSE IF d.target \in d.invalidDeviceExceptions
    THEN [d EXCEPT !.mode = "done", !.result = "KasaException"]
  ELSE [d EXCEPT !.mode = "direct"]

\* _handleDiscoveredEvent: 'complete' resolves waitForDiscoveryToComplete once
HandleDiscoveredEvent(d) ==
  IF ~Seen(d.seenHosts, d.target) THEN d
  ELSE LET e == [d EXCEPT !.targetDiscovered = TRUE]
       IN  IF d.mode = "waiting" THEN AfterComplete([e EXCEPT !.socket = FALSE]) ELSE e

\* Discover.discover() / Discover.discoverSingle(host): the protocol is built
\* and waitForDiscoveryToComplete starts it
StartDiscovery ==
  /\ disc.mode = "idle"
  /\ \E target \in Targets :
       disc' = [DiscIdle EXCEPT !.mode = "waiting", !.target = target, !.socket = TRUE]
  /\ UNCHANGED <<cam, cipher, emeter, xor, factory, smart, stackVars>>

\* datagramReceived up to its await
DatagramReceived ==
  /\ disc.socket
  /\ disc.received < MaxDatagrams
  /\ \E ip \in IPs, data \in Datagrams :
       LET got == [disc EXCEPT !.received = @ + 1, !.rinfo = ip]
       IN  disc' =
             IF Seen(disc.seenHosts, ip) THEN [got EXCEPT !.dropped = @ \cup {ip}]
             ELSE LET seen == [got EXCEPT !.seenHosts = @ \cup {ip},
                                          !.processed[ip] = @ + 1]
                  IN  IF data = "garbage" THEN seen
                      ELSE [seen EXCEPT !.pending[ip] = data]
  /\ UNCHANGED <<cam, cipher, emeter, xor, factory, smart, stackVars>>

\* datagramReceived after its await: the device is built or the build threw
DeviceBuilt ==
  /\ \E ip \in IPs :
       /\ disc.pending[ip] # "none"
       /\ \E outcome \in BuildOutcomes(disc.pending[ip]) :
            LET bucket == Bucket(outcome)
                d == [disc EXCEPT !.pending[ip] = "none", !.outcome[ip] = outcome.name]
            IN  disc' =
                  IF bucket = "rethrown" THEN d
                  ELSE IF bucket = "unsupported" THEN
                    HandleDiscoveredEvent(
                      [d EXCEPT !.unsupportedDeviceExceptions = @ \cup {ip}])
                  ELSE IF bucket = "invalid" THEN
                    HandleDiscoveredEvent([d EXCEPT !.invalidDeviceExceptions = @ \cup {ip}])
                  ELSE HandleDiscoveredEvent([d EXCEPT !.discoveredDevices[ip] = bucket])
  /\ UNCHANGED <<cam, cipher, emeter, xor, factory, smart, stackVars>>

\* the timer of waitForDiscoveryToComplete rejects with TimeoutError:
\* discover() returns the devices found, discoverSingle() lets the error pass
DiscoveryTimeout ==
  /\ disc.mode = "waiting"
  /\ disc' = [disc EXCEPT !.mode = "done", !.timedOut = TRUE, !.socket = FALSE,
                          !.result = IF disc.target = Broadcast THEN "devices"
                                     ELSE "TimeoutError"]
  /\ UNCHANGED <<cam, cipher, emeter, xor, factory, smart, stackVars>>

\* connect({host}): the discovery of _connectWithAutoDetection names a
\* protocol whose connection succeeds, or the brute-force loop starts
DirectConnect ==
  /\ disc.mode = "direct"
  /\ disc.attempt = 0
  /\ \E connected \in BOOLEAN :
       disc' = IF connected THEN [disc EXCEPT !.mode = "done", !.result = "device"]
               ELSE [disc EXCEPT !.attempt = NextAttempt(1)]
  /\ UNCHANGED <<cam, cipher, emeter, xor, factory, smart, stackVars>>

\* _connect(config, protocol) of the running attempt resolves or rejects
BruteForceAttempt ==
  /\ disc.mode = "direct"
  /\ disc.attempt \in 1..Len(protocolAttempts)
  /\ \E updated \in BOOLEAN :
       disc' =
         IF updated THEN [disc EXCEPT !.mode = "done", !.result = "device"]
         ELSE LET next == NextAttempt(disc.attempt + 1)
                  d == [disc EXCEPT !.failed = Append(@, disc.attempt), !.attempt = next]
              IN  IF next > Len(protocolAttempts)
                  THEN [d EXCEPT !.mode = "done", !.result = "TimeoutError"]
                  ELSE d
  /\ UNCHANGED <<cam, cipher, emeter, xor, factory, smart, stackVars>>

\* the caller has the result; the protocol object is dropped
DiscoveryOver ==
  /\ disc.mode = "done"
  /\ \A ip \in IPs : disc.pending[ip] = "none"
  /\ disc' = DiscIdle
  /\ UNCHANGED <<cam, cipher, emeter, xor, factory, smart, stackVars>>

\* ------------------------------------------------------------- EmeterStatus
\* the attributes with a getter, and the key of each with its unit postfix
Attributes == {"voltage", "current", "power", "total"}
MilliKey ==
  [voltage |-> "voltage_mv", current |-> "current_ma", power |-> "power_mw",
   total |-> "total_wh"]
MilliKeys == {MilliKey[a] : a \in Attributes}
EmeterKeys == Attributes \cup MilliKeys
\* item.substring(0, item.indexOf('_'))
BaseKey(item) == CHOOSE a \in Attributes : MilliKey[a] = item

\* raw emeter data: up to MaxKeys of the keys, each with a reading
Readings == {0, 1500}
RawData ==
  UNION {[keys -> Readings] : keys \in {k \in SUBSET EmeterKeys : Cardinality(k) <= MaxKeys}}

\* numbers are held in thousandths, so that x / 1000 is exact
Number(n) == [k |-> "number", v |-> n * 1000]
NullValue == [k |-> "null", v |-> 0]
Thrown(name) == [k |-> name, v |-> 0]

\* key.startsWith(item), on the keys above
StartsWith(key, item) == key = item \/ (key \in MilliKeys /\ BaseKey(key) = item)

\* _getItem that never converts
GetItemUnscaled(own, item) ==
  IF item \in DOMAIN own THEN Number(own[item]) ELSE NullValue

\* EmeterStatus._getItem(item) on an object with the own properties `own`
GetItem(own, item) ==
  IF item \in DOMAIN own THEN Number(own[item])
  ELSE IF item \notin EmeterKeys THEN Thrown("Error")
  ELSE IF item \in MilliKeys THEN
    IF BaseKey(item) \in DOMAIN own
    THEN [k |-> "number", v |-> Number(own[BaseKey(item)]).v * 1000]
    ELSE NullValue
  ELSE IF \E key \in DOMAIN own : StartsWith(key, item)
    THEN LET key == CHOOSE kk \in DOMAIN own : StartsWith(kk, item)
         IN  [k |-> "number", v |-> Number(own[key]).v \div 1000]
  ELSE NullValue

\* the getters: try { return this._getItem(attribute) } catch { return null }
Getter(own, attribute) ==
  LET value == GetItem(own, attribute)
  IN  IF value.k = "Error" THEN NullValue ELSE value

\* Object.assign(this, data) sets each key of data on the new object: a key
\* that the prototype defines with a getter and no setter cannot be set
Assignable(key) == key \notin Attributes

EmeterIdle == [pc |-> "none", data |-> <<>>, own |-> <<>>, item |-> "none", value |-> NullValue]

\* new EmeterStatus(data)
EmeterNew ==
  /\ emeter.pc = "none"
  /\ \E data \in RawData :
       emeter' = IF \A key \in DOMAIN data : Assignable(key)
                 THEN [EmeterIdle EXCEPT !.pc = "constructed", !.data = data, !.own = data]
                 ELSE [EmeterIdle EXCEPT !.pc = "TypeError", !.data = data]
  /\ UNCHANGED <<cam, cipher, disc, xor, factory, smart, stackVars>>

\* status.voltage, status.current, status.power, status.total
EmeterGet ==
  /\ emeter.pc \in {"constructed", "read"}
  /\ \E attribute \in Attributes :
       emeter' = [emeter EXCEPT !.pc = "read", !.item = attribute,
                                !.value = Getter(emeter.own, attribute)]
  /\ UNCHANGED <<cam, cipher, disc, xor, factory, smart, stackVars>>

\* status._getItem(key) for a key with a unit postfix
EmeterGetItem ==
  /\ emeter.pc \in {"constructed", "read"}
  /\ \E item \in MilliKeys :
       emeter' = [emeter EXCEPT !.pc = "read", !.item = item,
                                !.value = GetItem(emeter.own, item)]
  /\ UNCHANGED <<cam, cipher, disc, xor, factory, smart, stackVars>>

\* the status object is dropped
EmeterDrop ==
  /\ emeter.pc # "none"
  /\ emeter' = EmeterIdle
  /\ UNCHANGED <<cam, cipher, disc, xor, factory, smart, stackVars>>

\* ------------------------------------ KlapEncryptionSession: the cipher
\* Buffers are modelled by their lengths in bytes.
\* "blockSize - (msg.length % blockSize)": the PKCS7 padding added by hand
PaddingLength(length) == blockSize - (length % blockSize)
\* cipher.update(data) of aes-128-cbc: the whole blocks of data
CipherUpdate(length) == (length \div blockSize) * blockSize
\* cipher.final() of a cipher made by createCipheriv, whose auto padding is on:
\* the bytes update() kept back, PKCS7-padded to one block
CipherFinal(length) ==
  LET kept == length % blockSize
  IN kept + PaddingLength(kept)
\* encrypt(msg): the ciphertext of the message padded by hand
KlapCiphertext(length) ==
  LET paddedData == length + PaddingLength(length)
  IN CipherUpdate(paddedData) + CipherFinal(paddedData)
\* encrypt(msg): Buffer.concat([signature, ciphertext])
KlapBody(length) == SIGNATURE_LENGTH + KlapCiphertext(length)

\* what a device makes of a plaintext: one PKCS7 padding
DeviceCiphertext(length) == length + PaddingLength(length)
\* decrypt(msg) of the reply of a device, JSON text of `length` bytes under one
\* padding: decipher.final() takes the padding off, and the last byte of JSON
\* text is no valid padding, so that dp is returned as it is
KlapDecrypt(length) ==
  LET dp == DeviceCiphertext(length) - PaddingLength(length)
  IN dp

CipherIdle == [pc |-> "none", msg |-> 0, body |-> 0, ciphertext |-> 0,
               reply |-> 0, decrypted |-> 0]

\* session.encrypt(msg) with a message of `length` bytes
KlapEncryptMessage ==
  /\ \E length \in 0..MaxPlain :
       cipher' = [cipher EXCEPT !.pc = "encrypted", !.msg = length,
                                !.ciphertext = KlapCiphertext(length),
                                !.body = KlapBody(length)]
  /\ UNCHANGED <<cam, emeter, disc, xor, factory, smart, stackVars>>

\* session.decrypt(responseData) of the reply of a device to the request
KlapDecryptReply ==
  /\ cipher.pc = "encrypted"
  /\ \E length \in 0..MaxPlain :
       cipher' = [cipher EXCEPT !.pc = "decrypted",
                                !.reply = SIGNATURE_LENGTH + DeviceCiphertext(length),
                                !.decrypted = KlapDecrypt(length)]
  /\ UNCHANGED <<cam, emeter, disc, xor, factory, smart, stackVars>>

\* ------------------------------------------------------- SmartCamProtocol
\* SmartCamProtocol._handleResponseErrorCode(respDict, method, {raiseOnError}):
\* the error it throws ("none": it returns) and whether it overwrote
\* respDict.result.  errorCode is the object of fromInt, SUCCESS is a number.
CamHandleResponseErrorCode(code, raiseOnError) ==
  LET errorCode == SmartErrorCodeFromInt(code)
  IN IF StrictEquals(errorCode, SmartErrorCodeMember(0))
     THEN [thrown |-> "none", overwritten |-> FALSE]
     ELSE IF ~raiseOnError THEN [thrown |-> "none", overwritten |-> TRUE]
     ELSE IF SetHas(SMART_RETRYABLE_ERRORS, errorCode)
     THEN [thrown |-> "Retryable", overwritten |-> FALSE]
     ELSE IF SetHas(SMART_AUTHENTICATION_ERRORS, errorCode)
     THEN [thrown |-> "Auth", overwritten |-> FALSE]
     ELSE [thrown |-> "Device", overwritten |-> FALSE]

\* the requests _executeQuery sends as one request: a method name, which
\* _makeSmartCameraSingleRequest makes a get, set or do request, or an object
\* with the one key get, set, do or multipleRequest
CamRequests ==
  [form : {"name"}, methodType : {"get", "set", "do"}]
  \cup [form : {"object"}, methodType : {"get", "set", "do", "multi"}]

\* the responses of a camera: with or without error_code, and what its first
\* key holds: the error code, the section asked for (with content, {} or
\* null), or nothing at all for {}
CamCodes == {0, -1, SESSION_EXPIRED}
NoCode == [some |-> FALSE, code |-> 0]
CamResponses ==
  {r \in [errorCode : {NoCode} \cup [some : {TRUE}, code : CamCodes],
          first : {"error_code", "content", "empty", "null", "absent"}] :
     /\ r.first = "error_code" => r.errorCode.some
     /\ r.first = "absent" => ~r.errorCode.some}

\* _executeQuery after transport.send: the error thrown, or what is returned
CamExecuteQuery(request, response) ==
  LET h == IF response.errorCode.some
           THEN CamHandleResponseErrorCode(response.errorCode.code, TRUE)
           ELSE [thrown |-> "none", overwritten |-> FALSE]
  IN IF h.thrown # "none" THEN [thrown |-> h.thrown, returned |-> "none"]
     ELSE IF request.methodType = "get" /\ response.first \in {"absent", "null", "empty"}
     THEN [thrown |-> "Device", returned |-> "none"]
     ELSE [thrown |-> "none",
           returned |-> IF request.methodType = "do" THEN "responseData"
                        ELSE IF request.methodType = "set" THEN "{}"
                        ELSE IF request.methodType = "multi" THEN "result"
                        ELSE "section"]

CamIdle ==
  [pc |-> "idle", request |-> [form |-> "none", methodType |-> "none"],
   retry |-> 0, retryCount |-> 0,
   response |-> [errorCode |-> NoCode, first |-> "absent"],
   thrown |-> "none", returned |-> "none"]

\* query(request, retryCount) up to transport.send
CamQuery ==
  /\ cam.pc \in {"idle", "done"}
  /\ \E request \in CamRequests, retryCount \in 0..MaxRetryCount :
       cam' = [CamIdle EXCEPT !.pc = "sent", !.request = request,
                              !.retryCount = retryCount]
  /\ UNCHANGED <<cipher, emeter, disc, xor, factory, smart, stackVars>>

\* the response arrives: _executeQuery ends, and the catch block of _query
\* throws or starts the next attempt
CamReply ==
  /\ cam.pc = "sent"
  /\ \E response \in CamResponses :
       LET r == CamExecuteQuery(cam.request, response)
           h == SmartCatch(r.thrown, cam.retry, cam.retryCount)
           c == [cam EXCEPT !.response = response, !.thrown = r.thrown,
                            !.returned = r.returned]
       IN cam' = IF r.thrown = "none" \/ h.throw THEN [c EXCEPT !.pc = "done"]
                 ELSE [c EXCEPT !.retry = @ + 1]
  /\ UNCHANGED <<cipher, emeter, disc, xor, factory, smart, stackVars>>

\* ---------------------------------------------------------- specifications
\* the protocol classes and the transports they are built with
Stacks == {<<"iot", "klap">>, <<"smart", "klapv2">>, <<"smart", "aes">>}
KlapStacks == {st \in Stacks : st[2] # "aes"}

InitWith(stacks, callers, hashes) ==
  /\ \E st \in stacks : protocol = st[1] /\ transport = st[2]
  /\ localAuthHash \in hashes
  /\ pc = [c \in callers |-> "idle"]
  /\ queryLock = FALSE
  /\ timerQ = <<>>
  /\ q = [c \in callers |-> NoQuery]
  /\ tr = TransportInit
  /\ frame = [c \in callers |-> NoFrame]
  /\ now = 0
  /\ ticks = 0
  /\ obs = ObsInit
  /\ smart = SmartIdle(DEFAULT_MULTI_REQUEST_BATCH_SIZE)
  /\ cam = CamIdle
  /\ cipher = CipherIdle
  /\ emeter = EmeterIdle
  /\ disc = DiscIdle
  /\ xor = XorIdle
  /\ factory = FactoryIdle

\* replies of a device that knows the blank credentials, or none the client has
PlainHandshake1Replies ==
  Handshake1Replies({0}, {0, TagSpace - 1}, {"sid"}, {"null"})
  \cup Handshake1Failures \cup {[Http(200) EXCEPT !.len = 10]}

\* Spec: the retry loop of two callers, every failure of every post.
Init == InitWith(KlapStacks, 1..2, {BlankAuthHash})

Next ==
  \/ \E c \in DOMAIN pc, n \in RetryCounts : Call(c, n)
  \/ Poll
  \/ \E c \in DOMAIN pc : StartAttempt(c, {0})
  \/ \E c \in DOMAIN pc : Handshake1Reply(c, PlainHandshake1Replies)
  \/ \E c \in DOMAIN pc : Handshake2Reply(c, Handshake2Replies, {0, SeqMax})
  \/ \E c \in DOMAIN pc : RequestReply(c, RequestReplies)
  \/ \E c \in DOMAIN pc : BackoffDone(c)

Spec == Init /\ [][Next]_vars

\* SpecFair: Spec where every post ends, every timer fires and every loop goes on.
Fairness ==
  /\ WF_vars(Poll)
  /\ \A c \in 1..2 :
       /\ WF_vars(StartAttempt(c, {0}))
       /\ WF_vars(Handshake1Reply(c, PlainHandshake1Replies))
       /\ WF_vars(Handshake2Reply(c, Handshake2Replies, {0, SeqMax}))
       /\ WF_vars(RequestReply(c, RequestReplies))
       /\ WF_vars(BackoffDone(c))

SpecFair == Init /\ [][Next]_vars /\ Fairness

\* SpecLock: NumCallers callers contend for the lock of one protocol; the
\* device answers, or a request times out.
LockRequestReplies ==
  {NetFail("Timeout"), [Http(200) EXCEPT !.body = "json", !.code = 0]}

InitLock == InitWith(KlapStacks, Callers, {BlankAuthHash})

NextLock ==
  \/ \E c \in DOMAIN pc, n \in RetryCounts : Call(c, n)
  \/ Poll
  \/ \E c \in DOMAIN pc : StartAttempt(c, {0})
  \/ \E c \in DOMAIN pc : Handshake1Reply(c, {[Http(200) EXCEPT !.len = 48, !.sid = "sid"]})
  \/ \E c \in DOMAIN pc : Handshake2Reply(c, {Http(200)}, {0})
  \/ \E c \in DOMAIN pc : RequestReply(c, LockRequestReplies)
  \/ \E c \in DOMAIN pc : BackoffDone(c)

SpecLock == InitLock /\ [][NextLock]_vars

\* SpecTransport: the sessions of one transport over time: expiry, 403, the
\* whole range of initial sequence numbers, handshake replies of any length.
SessionHandshake1Replies ==
  Handshake1Replies({0}, {0}, {"sid"}, {"null", "600"})
  \cup WrongLengthReplies \cup {NetFail("Timeout")}
SessionRequestReplies ==
  {NetFail("Timeout"), Http(403)}
  \cup {[Http(200) EXCEPT !.body = b, !.code = 0] : b \in {"garbage", "json"}}
AesReplies ==
  {NetFail("Timeout"), Http(500)}
  \cup {[Http(200) EXCEPT !.body = "json", !.code = k, !.sid = "sid"] : k \in {0, -1501, -40401}}
  \cup {[Http(200) EXCEPT !.body = b] : b \in {"null", "garbage"}}

InitTransport == InitWith(Stacks \ {<<"smart", "klapv2">>}, 1..2, {BlankAuthHash})

NextTransport ==
  \/ \E c \in DOMAIN pc, n \in {1} : Call(c, n)
  \/ Poll
  \/ \E c \in DOMAIN pc : StartAttempt(c, {0})
  \/ \E c \in DOMAIN pc : Handshake1Reply(c, SessionHandshake1Replies)
  \/ \E c \in DOMAIN pc : Handshake2Reply(c, {Http(200), Http(500)}, InitialSeqs)
  \/ \E c \in DOMAIN pc : RequestReply(c, SessionRequestReplies)
  \/ \E c \in DOMAIN pc : AesReply(c, AesReplies)
  \/ \E c \in DOMAIN pc : BackoffDone(c)
  \/ Tick

SpecTransport == InitTransport /\ [][NextTransport]_vars

\* SpecSmart: the queries of one SmartProtocol instance, one after the other,
\* against every answer of the device; the transport is what send() returns.
InitSmart ==
  /\ protocol = "smart" /\ transport = "klapv2"
  /\ localAuthHash = BlankAuthHash
  /\ pc = [c \in {1} |-> "idle"]
  /\ queryLock = FALSE
  /\ timerQ = <<>>
  /\ q = [c \in {1} |-> NoQuery]
  /\ tr = TransportInit
  /\ frame = [c \in {1} |-> NoFrame]
  /\ now = 0
  /\ ticks = 0
  /\ obs = ObsInit
  /\ \E size \in ConfiguredBatchSizes : smart = SmartIdle(size)
  /\ cam = CamIdle
  /\ cipher = CipherIdle
  /\ emeter = EmeterIdle
  /\ disc = DiscIdle
  /\ xor = XorIdle
  /\ factory = FactoryIdle

NextSmart ==
  \/ SmartCall(Requests, {0, 1})
  \/ SmartSingleReply
  \/ SmartStep1Reply
  \/ SmartBatchReply
  \/ SmartRequeryReply
  \/ SmartPageReply
  \/ SmartBackoffDone

SpecSmart == InitSmart /\ [][NextSmart]_vars

\* SpecCodes: queries of one method, answered with error codes in and out of
\* the registry of SmartErrorCode.
SingleRequests == {r \in Requests : Len(r) = 1}

NextCodes ==
  \/ SmartCall(SingleRequests, {0, 1})
  \/ SmartSingleReplyOf(DeviceCodes)
  \/ SmartPageReply
  \/ SmartBackoffDone

SpecCodes == InitSmart /\ [][NextCodes]_vars

\* SpecAuth: handshake1 of one caller with every user auth hash, every seed
\* and every server tag.
InitAuth == InitWith(KlapStacks, {1}, UserAuthHashes)

NextAuth ==
  \/ \E n \in {0} : Call(1, n)
  \/ StartAttempt(1, Seeds)
  \/ Handshake1Reply(1, Handshake1Replies(Seeds, Tags, {"sid"}, {"null"})
                          \cup WrongLengthReplies \cup Handshake1Failures)
  \/ Handshake2Reply(1, {Http(200)}, {0})
  \/ RequestReply(1, {[Http(200) EXCEPT !.body = "json", !.code = 0]})

SpecAuth == InitAuth /\ [][NextAuth]_vars

\* SpecFactory: every call of getProtocol and of connect with a config.
InitFactory ==
  /\ InitWith({<<"iot", "klap">>}, {1}, {BlankAuthHash})

NextFactory ==
  \/ FactoryGetProtocol
  \/ FactoryConnect
  \/ FactoryConnected

SpecFactory == InitFactory /\ [][NextFactory]_vars

InitXor ==
  /\ InitWith({<<"iot", "klap">>}, {1}, {BlankAuthHash})

NextXor ==
  \/ XorQuery
  \/ XorConnected
  \/ XorConnectFailed
  \/ XorBackoffDone
  \/ XorEcho
  \/ XorClose

SpecXor == InitXor /\ [][NextXor]_vars

InitDisc ==
  /\ InitWith({<<"iot", "klap">>}, {1}, {BlankAuthHash})

NextDisc ==
  \/ StartDiscovery
  \/ DatagramReceived
  \/ DeviceBuilt
  \/ DiscoveryTimeout
  \/ DirectConnect
  \/ BruteForceAttempt
  \/ DiscoveryOver

SpecDisc == InitDisc /\ [][NextDisc]_vars

InitEmeter ==
  /\ InitWith({<<"iot", "klap">>}, {1}, {BlankAuthHash})

NextEmeter ==
  \/ EmeterNew
  \/ EmeterGet
  \/ EmeterGetItem
  \/ EmeterDrop

SpecEmeter == InitEmeter /\ [][NextEmeter]_vars

\* SpecCipher: a KLAP encryption session encrypts requests and decrypts replies
InitCipher ==
  /\ InitWith({<<"iot", "klap">>}, {1}, {BlankAuthHash})

NextCipher ==
  \/ KlapEncryptMessage
  \/ KlapDecryptReply

SpecCipher == InitCipher /\ [][NextCipher]_vars

\* SpecCam: a SmartCamProtocol sends single requests to a camera
InitCam ==
  /\ InitWith({<<"smart", "aes">>}, {1}, {BlankAuthHash})

NextCam ==
  \/ CamQuery
  \/ CamReply

SpecCam == InitCam /\ [][NextCam]_vars

\* ------------------------------------------------------------------ claims
\* a caller is between taking the lock and releasing it: its sends happen here
InFlight(c) == q[c].stage # "none"
OnTheWire(c) ==
  q[c].stage \in {"handshake1", "handshake2", "request",
                  "aes_handshake", "aes_login", "aes_handshake_default",
                  "aes_login_default", "aes_request"}

\* C1: on one protocol instance at most one query() is in flight at any time:
\* while one caller is between its first and its last transport send, no other
\* caller is inside _query, and the lock is held as long as a caller is.
C1_OneQueryInFlight ==
  /\ \A c, d \in DOMAIN pc : (InFlight(c) /\ InFlight(d)) => c = d
  /\ \A c \in DOMAIN pc : InFlight(c) => (queryLock /\ pc[c] = "running")
  /\ \A c \in DOMAIN pc : pc[c] = "running" => InFlight(c)

\* a caller that had to wait has a post on the wire, the first caller is done
\* and a third one is waiting for the lock
C1_Witness ==
  \E c, d, e \in DOMAIN pc :
    /\ OnTheWire(c)
    /\ obs.wake.woke = c
    /\ pc[d] = "waiting"
    /\ pc[e] = "done"

\* C2: callers that queued while a query was in flight take the lock in the
\* order in which they called query(): the one that wakes is the one that has
\* waited longest.
C2_ArrivalOrder == obs.wake.woke = obs.wake.first

\* C3 as stated: once a request with seq = k was sent and accepted by the device
\* (answered with status 200), no later request of the transport is sent with a
\* seq below k, whatever retries and re-handshakes lie in between.
C3_NeverBelowAccepted ==
  \A c \in DOMAIN pc :
    (q[c].stage = "request" /\ obs.accMax.some) => frame[c].seq >= obs.accMax.v

\* C3, amended: within one encryption session, once a request with seq = k was
\* accepted, every later request of that session is sent with a seq above k.
C3_AboveAcceptedInSession ==
  \A c \in DOMAIN pc :
    (q[c].stage = "request" /\ obs.accMaxSess.some) => frame[c].seq > obs.accMaxSess.v

\* a request is on the wire in a session that already had a request accepted,
\* sent by a caller of its own
C3_Witness ==
  \E c \in DOMAIN pc :
    /\ q[c].stage = "request"
    /\ obs.accMaxSess.some
    /\ \E d \in DOMAIN pc : d # c /\ pc[d] = "done"

\* C4: within one KlapEncryptionSession seq is seq_initial plus the number of
\* encrypt() calls, every encrypt() call returns that seq with its payload
\* (the request sent carries it), and decrypt() leaves seq alone.
C4_SeqCountsEncrypts ==
  LET s == tr.encryptionSession
  IN /\ s.live => s.seq = s.init + s.encrypts
     /\ \A c \in DOMAIN pc : q[c].stage = "request" => frame[c].seq = s.seq
     /\ obs.enc # "threw"

\* C5: a KLAP request answered with status 403 makes send() raise a retryable
\* error, and the send() that follows on the transport posts handshake1 and
\* handshake2 before it posts its request.
C5_ForbiddenThenHandshake ==
  /\ obs.last.cause = "http403" =>
       (obs.last.err = "Retryable" /\ ~obs.last.left.handshakeDone)
  /\ \A c \in DOMAIN pc :
       /\ (OnTheWire(c) /\ obs.pre.after403) => obs.posts[1] = "handshake1"
       /\ (q[c].stage = "request" /\ obs.pre.after403) =>
            obs.posts = <<"handshake1", "handshake2", "request">>

\* the request of the send() after a 403 is on the wire; the session the 403
\* came in had been used by an earlier caller
C5_Witness ==
  \E c \in DOMAIN pc :
    /\ q[c].stage = "request"
    /\ obs.pre.after403
    /\ obs.pre.tr.encryptionSession.encrypts >= 2

\* the wall clock was past session_expires_at when send() was called
PastExpiry ==
  /\ obs.pre.tr.sessionExpireAt.k = "num"
  /\ obs.pre.now > obs.pre.tr.sessionExpireAt.v

\* C6: when send() is called with the wall clock past session_expires_at on a
\* KLAP or AES transport whose session is established, the handshake is posted
\* first, and the request is posted only after the full handshake.
C6_ExpiredThenHandshake ==
  \A c \in DOMAIN pc :
    /\ (OnTheWire(c) /\ PastExpiry /\ obs.pre.tr.handshakeDone) =>
         obs.posts[1] = "handshake1"
    /\ (q[c].stage = "request" /\ PastExpiry /\ obs.pre.tr.handshakeDone) =>
         obs.posts = <<"handshake1", "handshake2", "request">>
    /\ (OnTheWire(c) /\ PastExpiry /\ obs.pre.tr.state = "ESTABLISHED") =>
         obs.posts[1] = "handshake"

\* a request is on the wire after a handshake that only the clock has caused:
\* the session was established, no call had failed, the day has passed
C6_Witness ==
  \E c \in DOMAIN pc :
    /\ q[c].stage = "request"
    /\ PastExpiry
    /\ obs.pre.tr.handshakeDone
    /\ ~obs.pre.after403
    /\ obs.pre.tr.sessionExpireAt.v > 0
    /\ q[c].attempts = 1
    /\ \E d \in DOMAIN pc : pc[d] = "done"

\* the session state of a KLAP transport
SessionState(t) ==
  <<t.handshakeDone, t.sessionCookie, t.sessionExpireAt, t.encryptionSession>>
\* a handshake1 reply with status 200 whose body is not 48 bytes long
WrongLength(reply) == reply.net = "ok" /\ reply.status = 200 /\ reply.len # 48

\* C7 as stated: a handshake1 reply whose body is not exactly 48 bytes makes the
\* handshake fail with an error, and leaves the session state of the transport
\* (handshake-done flag, cookie, expiry, encryption session) as it was before
\* the call.
C7_WrongLengthNoChange ==
  \A c \in DOMAIN pc :
    (obs.last.caller = c /\ WrongLength(frame[c].reply1)) =>
      /\ obs.last.err # "none"
      /\ SessionState(obs.last.left) = SessionState(obs.pre.tr)

\* C7, amended: exactly the handshake1 replies whose body is not 48 bytes make
\* the handshake fail for their length, with a KasaException; the encryption
\* session is then the one from before the call, the handshake-done flag is
\* false, and the session cookie and the session expiry are null.
C7_WrongLengthClearsSession ==
  \A c \in DOMAIN pc :
    obs.last.caller = c =>
      /\ WrongLength(frame[c].reply1) <=> obs.last.cause = "hs1_length"
      /\ obs.last.cause = "hs1_length" =>
           /\ obs.last.err = "Kasa"
           /\ obs.last.left.encryptionSession = obs.pre.tr.encryptionSession
           /\ ~obs.last.left.handshakeDone
           /\ obs.last.left.sessionCookie = "null"
           /\ obs.last.left.sessionExpireAt = NullAt

\* a reply of a wrong length came to the handshake of an established, expired
\* session: the call has changed the flag, the cookie and the expiry
C7_Witness ==
  \E c \in DOMAIN pc :
    /\ obs.last.caller = c
    /\ obs.last.cause = "hs1_length"
    /\ frame[c].reply1.len = 47
    /\ obs.pre.tr.handshakeDone
    /\ obs.pre.tr.sessionCookie = "sid"
    /\ obs.pre.tr.encryptionSession.live

\* the auth hashes handshake1 is to try, in the order of the claim
Candidates == <<localAuthHash>> \o DefaultCredentialsAuthHash \o <<BlankAuthHash>>
\* the candidates whose tag for caller c's seeds is the server's tag
Matches(c) ==
  {i \in 1..Len(Candidates) :
     handshake1SeedAuthHash(transport, frame[c].localSeed, frame[c].reply1.remoteSeed,
                            Candidates[i]) = frame[c].reply1.serverHash}
FirstMatch(c) == CHOOSE i \in Matches(c) : \A j \in Matches(c) : i <= j
\* caller c's handshake1 got a 48-byte reply with status 200
Compared(c) ==
  frame[c].reply1.net = "ok" /\ frame[c].reply1.status = 200 /\ frame[c].reply1.len = 48

C9_AuthSurfacesAtOnce ==
  obs.last.err = "Auth" =>
    /\ obs.last.thrown = "Auth"
    /\ obs.last.reset
    /\ ~tr.handshakeDone
    /\ pc[obs.last.caller] = "done"
    /\ ~InFlight(obs.last.caller)

\* the device refused the login of a first attempt that had a retry left, on
\* a transport whose handshake was done
C9_Witness ==
  /\ obs.last.err = "Auth"
  /\ obs.last.cause = "error_code"
  /\ obs.last.attempts = 1
  /\ obs.last.retryCount >= 1
  /\ obs.last.left.handshakeDone

RetriedErrors == {"Timeout", "Connection", "Retryable"}
\* the attempts of a query stay within its budget, and TimeoutError,
\* ConnectionError and RetryableError are retried exactly while budget remains
RetryBudget ==
  /\ \A c \in DOMAIN pc : q[c].attempts <= q[c].retryCount + 1
  /\ obs.last.err \in RetriedErrors =>
       IF obs.last.attempts <= obs.last.retryCount
       THEN /\ obs.last.thrown = "none"
            /\ q[obs.last.caller].stage \in {"start", "backoff"}
            /\ q[obs.last.caller].attempts = obs.last.attempts
       ELSE /\ obs.last.thrown = obs.last.err
            /\ pc[obs.last.caller] = "done"

\* C10: query(request, N) makes at most N+1 attempts; Timeout, Connection and
\* Retryable errors are retried while budget remains, and the error of the last
\* attempt is thrown when it is used up; every query that has started ends,
\* given that every post and every timer ends.
C10_BoundedRetries ==
  /\ []RetryBudget
  /\ \A c \in 1..2 : (pc[c] \in {"waiting", "running"}) ~> (pc[c] = "done")

\* a query has used up its budget: its last attempt timed out after a retry
C10_Witness ==
  /\ obs.last.err = "Timeout"
  /\ obs.last.thrown = "Timeout"
  /\ obs.last.retryCount >= 1
  /\ obs.last.attempts = obs.last.retryCount + 1

\* the errors _executeQuery throws after send() has returned
AfterSend == {"error_code"}

\* C11: whenever send() of an AES or KLAP transport ends with an error (status
\* other than 200, connection error, timeout, device error code, decryption
\* failure), the transport is left in HANDSHAKE_REQUIRED (KLAP: handshake not
\* done), so that the next send() starts with a handshake.
C11_ErrorLeavesHandshakeRequired ==
  (obs.last.err # "none" /\ obs.last.cause \notin AfterSend) =>
    IF transport = "aes" THEN obs.last.left.state = "HANDSHAKE_REQUIRED"
    ELSE ~obs.last.left.handshakeDone

\* the device answered a post with HTTP 200, a JSON body and error_code 0
AnsweredOk(reply) ==
  reply.net = "ok" /\ reply.status = 200 /\ reply.body = "json" /\ reply.code = 0

\* C12: from HANDSHAKE_REQUIRED, an AES send() whose handshake is answered with
\* HTTP 200 and error_code 0 moves to LOGIN_REQUIRED and posts the login; a login
\* answered with error_code 0 and a token moves it to ESTABLISHED with token_url
\* set, and the caller's request is then posted to token_url.  In particular a
\* reply with error_code 0 never fails the error code check.
C12_AesHappyPath ==
  /\ \A c \in DOMAIN pc :
       /\ q[c].stage = "aes_login" =>
            tr.state = "LOGIN_REQUIRED" /\ obs.posts = <<"handshake", "login">>
       /\ (q[c].stage = "aes_request" /\ obs.pre.tr.state = "HANDSHAKE_REQUIRED") =>
            /\ tr.state = "ESTABLISHED" /\ tr.tokenUrl = "token"
            /\ obs.posts[Len(obs.posts)] = "request_token"
  /\ obs.last.cause = "aes_error_code" => frame[obs.last.caller].respDict.code # 0

\* C13: when the login with the configured credentials fails with LOGIN_ERROR,
\* send() makes exactly one more handshake and one login with the default
\* credentials; if that login succeeds the session is ESTABLISHED, and any
\* failure of the fallback is thrown without a further fallback.  The logins
\* this is about take place: a send() throws only for a post that failed or
\* for the error of a login.
C13_DefaultCredentialsFallback ==
  /\ \A c \in DOMAIN pc :
       /\ q[c].stage = "aes_handshake_default" =>
            obs.posts = <<"handshake", "login", "handshake">>
       /\ q[c].stage = "aes_login_default" =>
            /\ obs.posts = <<"handshake", "login", "handshake", "login">>
            /\ tr.state = "LOGIN_REQUIRED"
       /\ (q[c].stage = "aes_request" /\ Len(obs.posts) = 5) =>
            tr.state = "ESTABLISHED"
  /\ Len(obs.posts) <= 5
  /\ (transport = "aes" /\ obs.last.err # "none") =>
       \/ ~AnsweredOk(frame[obs.last.caller].respDict)
       \/ obs.last.cause = "aes_login_code"

\* C14: every handshake post of the AES transport goes out with the header
\* Content-Length: 314.
C14_HandshakeContentLength ==
  \A c \in DOMAIN pc :
    q[c].stage \in {"aes_handshake", "aes_handshake_default"} =>
      obs.contentLength = KEY_PAIR_CONTENT_LENGTH

\* a multi-method query has returned / has thrown
MultiReturned == smart.out.status = "returned" /\ Len(smart.request) > 1
MultiThrown == smart.out.status = "thrown" /\ Len(smart.request) > 1
Requested(m) == \E j \in 1..Len(smart.request) : smart.request[j] = m

\* C15: when a multipleRequest batch is answered with error_code -1003
\* (JSON_DECODE_FAIL_ERROR) or INTERNAL_UNKNOWN_ERROR while the batch size is
\* greater than 1, the protocol sets its batch size to 1 and raises a Retryable
\* error, and the next attempt of the same query sends every method singly.
C15_BatchDemotion ==
  (/\ smart.fail.cause = "batch"
   /\ smart.fail.code \in {JSON_DECODE_FAIL_ERROR, INTERNAL_UNKNOWN_ERROR}
   /\ smart.fail.size > 1) =>
    /\ smart.batchSize = 1
    /\ smart.fail.err = "Retryable"
    /\ (smart.fail.attempt = smart.retry /\ smart.mode \notin {"idle", "backoff"}) =>
         \A i \in 1..Len(smart.sent) : smart.sent[i].kind = "single"

\* C16: the batch size of a protocol instance never increases: whatever the
\* queries and their answers, each step leaves it as it was or lowers it, so
\* once it is 1 it stays 1.
C16_BatchSizeNeverIncreases == [][smart'.batchSize <= smart.batchSize]_vars

\* a query has ended on the error code of a batch, the one place that assigns
\* the batch size
C16_Witness ==
  /\ smart.out.status = "thrown"
  /\ smart.fail.cause = "batch"
  /\ smart.batchSize <= smart.fail.size

\* C17: for every query, single-method or multi-method and at any batch size,
\* whose result has start_index, sum = N and a list, against a device that
\* serves non-empty pages from the start_index asked for, the list returned has
\* exactly N entries.
C17_ListComplete ==
  (smart.out.status = "returned" /\ ~smart.broke) =>
    \A m \in Methods :
      smart.multiResult[m].kind = "list" => smart.multiResult[m].len = smart.multiResult[m].sum

\* C18: a method of the deny-list that is part of a multi-method query is
\* never inside a multipleRequest, and it is sent as a single request of its
\* own, at every batch size.
C18_DenyListSentSingly ==
  /\ \A i \in 1..Len(smart.sent) :
       smart.sent[i].kind = "multi" =>
         \A j \in 1..Len(smart.sent[i].methods) :
           smart.sent[i].methods[j] \notin FORCE_SINGLE_REQUEST
  /\ MultiReturned =>
       \A m \in FORCE_SINGLE_REQUEST \cap Methods :
         Requested(m) =>
           \E i \in 1..Len(smart.sent) :
             smart.sent[i] = [kind |-> "single", methods |-> <<m>>, start |-> 0]

\* C19: when a multi-method query returns, its result has exactly one entry for
\* every requested method (and none for any other): what no sub-response was
\* matched to has been sent again as a single request.
C19_EntryPerMethod ==
  MultiReturned =>
    \A m \in Methods : (smart.multiResult[m].kind # "absent") <=> Requested(m)

\* C20: in a multi-method query a sub-response with a non-zero error_code does
\* not raise: its entry of the result is the error code, and the entries of
\* the other methods are returned; only the error code of a batch (or of a page
\* request) raises.  In a single-method query every non-zero error_code raises.
C20_SubResponseErrors ==
  /\ MultiReturned =>
       \A m \in Methods :
         smart.answers[m].some =>
           IF smart.answers[m].code # 0
           THEN smart.multiResult[m] = ErrorCodeResult(smart.answers[m].code)
           ELSE smart.multiResult[m].kind \notin {"absent", "error"}
  /\ MultiThrown => smart.fail.cause \in {"batch", "page"}
  /\ \A m \in Methods :
       (smart.request = <<m>> /\ smart.answers[m].some /\ smart.answers[m].code # 0) =>
         /\ smart.fail.cause = "single" /\ smart.fail.code = smart.answers[m].code
         /\ smart.mode \in {"idle", "backoff"}
         /\ smart.mode = "idle" => smart.out.status = "thrown"

\* a multi-method query has returned with the error code of one method and the
\* result of another
C20_Witness ==
  /\ MultiReturned
  /\ \E m \in Methods : smart.multiResult[m].kind = "error" /\ smart.answers[m].code # 0
  /\ \E m \in Methods : smart.multiResult[m].kind \in {"object", "list"}

\* the sub-requests of the multipleRequests sent so far, one after the other
RECURSIVE Batched(_)
Batched(sent) ==
  IF sent = <<>> THEN <<>>
  ELSE IF Head(sent).kind = "multi" THEN Head(sent).methods \o Batched(Tail(sent))
  ELSE Batched(Tail(sent))

\* C21: in a multi-method query at batch size b > 1, every multipleRequest
\* sent holds at least 1 and at most b sub-requests, and the requested methods
\* outside the deny-list go out in request order, each in exactly one
\* multipleRequest.
C21_BatchesChunkRequests ==
  (Len(smart.request) > 1 /\ smart.batchSize > 1) =>
    /\ \A i \in 1..Len(smart.sent) :
         smart.sent[i].kind = "multi" =>
           /\ Len(smart.sent[i].methods) >= 1
           /\ Len(smart.sent[i].methods) <= smart.batchSize
    /\ Len(Batched(smart.sent)) <= Len(MultiRequests(smart.request))
    /\ Batched(smart.sent) =
         SubSeq(MultiRequests(smart.request), 1, Len(Batched(smart.sent)))
    /\ MultiReturned => Batched(smart.sent) = MultiRequests(smart.request)

\* the rows of the selection table: IOT.* XOR without https, IOT.* KLAP,
\* IOT.IPCAMERA XOR, SMART.* AES and SMART.* KLAP
Listed(ctype) ==
  \/ ctype.deviceFamily \in IotFamilies /\ ctype.encryptionType = "XOR" /\ ~ctype.https
  \/ ctype.deviceFamily \in IotFamilies /\ ctype.encryptionType = "KLAP"
  \/ ctype.deviceFamily = "IOT.IPCAMERA" /\ ctype.encryptionType = "XOR"
  \/ ctype.deviceFamily \in SmartFamilies /\ ctype.encryptionType \in {"AES", "KLAP"}

\* C22: for every IOT.* family other than the camera, encryption KLAP selects
\* the IoT protocol over the KLAP transport, with https and without.
C22_IotKlapAnyHttps ==
  (/\ factory.op # "none"
   /\ factory.ctype.deviceFamily \in IotFamilies \ {"IOT.IPCAMERA"}
   /\ factory.ctype.encryptionType = "KLAP") =>
    factory.protocol = [protocol |-> "IotProtocol", transport |-> "KlapTransport"]

\* C23: a (family, encryption, https) combination the selection table does not
\* list yields no protocol: getProtocol returns null, and connect() with such a
\* config throws UnsupportedDeviceError without contacting the device.
C23_UnlistedUnsupported ==
  (factory.op # "none" /\ ~Listed(factory.ctype)) =>
    /\ factory.protocol = NoProtocol
    /\ ~factory.contacted
    /\ factory.op = "connect" => factory.outcome = "UnsupportedDeviceError"

\* connect() was called with IOT.SMARTBULB, XOR and https, which no row lists
C23_Witness ==
  /\ factory.op = "connect"
  /\ factory.ctype = [deviceFamily |-> "IOT.SMARTBULB", encryptionType |-> "XOR",
                      https |-> TRUE]
  /\ factory.outcome = "UnsupportedDeviceError"

\* C24: a SMART.* family with AES and https, and SMART.IPCAMERA and
\* SMART.TAPODOORBELL with AES, select the SmartCam protocol over the SslAes
\* transport.
C24_SmartCamOverSslAes ==
  (/\ factory.op # "none"
   /\ factory.ctype.encryptionType = "AES"
   /\ \/ factory.ctype.deviceFamily \in SmartFamilies \ {"SMART.TAPOROBOVAC"}
         /\ factory.ctype.https
      \/ factory.ctype.deviceFamily \in {"SMART.IPCAMERA", "SMART.TAPODOORBELL"}) =>
    factory.protocol = [protocol |-> "SmartCamProtocol", transport |-> "SslAesTransport"]

NoRetryCodes == {"EHOSTDOWN", "EHOSTUNREACH", "ECONNREFUSED"}

\* C25: a connect failure of the XOR transport with EHOSTDOWN, EHOSTUNREACH or
\* ECONNREFUSED ends the query with an error and no further attempt; any other
\* connect failure is followed by another attempt while retries are left.
C25_NoRetryConnectErrors ==
  \A i \in 1..Len(xor.failures) :
    /\ xor.failures[i] \in NoRetryCodes =>
         i = Len(xor.failures) /\ xor.pc = "thrown"
    /\ (xor.failures[i] \notin NoRetryCodes /\ i <= xor.retryCount) =>
         (i < Len(xor.failures) \/ xor.pc # "thrown")

\* the number of bytes of a string in UTF-8
RECURSIVE ByteLength(_)
ByteLength(str) ==
  IF str = <<>> THEN 0
  ELSE IF Head(str) < 128 THEN 1 + ByteLength(Tail(str))
  ELSE IF Head(str) < 2048 THEN 2 + ByteLength(Tail(str))
  ELSE IF IsHigh(Head(str)) THEN 4 + ByteLength(Tail(Tail(str)))
  ELSE 3 + ByteLength(Tail(str))

\* C26: for every plaintext P, decrypt(encrypt(P) without its first 4 bytes)
\* is P, and those 4 bytes are the byte length of P, most significant byte
\* first.
C26_XorRoundTrip ==
  (xor.pc \in {"sending", "returned"}) =>
    /\ Len(xor.wire) = 4 + ByteLength(xor.request)
    /\ SubSeq(xor.wire, 1, 4) = <<0, 0, 0, ByteLength(xor.request)>>
    /\ XorDecrypt(SubSeq(xor.wire, 5, Len(xor.wire))) = xor.request
    /\ xor.pc = "returned" => xor.response = xor.request

\* a plaintext of two characters, 6 bytes, came back from the round trip
C26_Witness ==
  /\ xor.pc = "returned"
  /\ xor.request = <<55357, 56832, 233>>
  /\ xor.wire[4] = 6
  /\ xor.response = xor.request

\* C27: a datagram from an IP already in the seen-set is not processed: it
\* changes none of the discovered, unsupported and invalid results and starts
\* no build, so at most one datagram per IP is processed.
C27_OneDatagramPerIp ==
  [][(disc'.received = disc.received + 1 /\ disc'.rinfo \in disc.seenHosts) =>
       /\ disc'.discoveredDevices = disc.discoveredDevices
       /\ disc'.unsupportedDeviceExceptions = disc.unsupportedDeviceExceptions
       /\ disc'.invalidDeviceExceptions = disc.invalidDeviceExceptions
       /\ disc'.pending = disc.pending
       /\ disc'.processed = disc.processed]_vars

\* a second datagram of an IP was dropped, and the device of the first one
\* is in the discovered set
C27_Witness ==
  \E ip \in IPs :
    /\ ip \in disc.dropped
    /\ disc.processed[ip] = 1
    /\ disc.discoveredDevices[ip] = "device"

\* C28: in single-target discovery, once a datagram of the target has put
\* its IP in the seen-set and has been handled, whatever it held, completion
\* has been signalled and the discovery no longer waits for its timeout.
C28_TargetSeenCompletes ==
  (/\ disc.target \in IPs
   /\ disc.target \in disc.seenHosts
   /\ disc.pending[disc.target] = "none") =>
    disc.targetDiscovered /\ disc.mode # "waiting"

\* C29: when discoverSingle times out with no datagram from the target, the
\* direct connection is attempted; and a device returned by the brute-force
\* loop is that of the first combination whose update succeeded.
C29_FallbackAfterTimeout ==
  /\ (disc.target \in IPs /\ disc.timedOut /\ disc.target \notin disc.seenHosts) =>
       (disc.mode = "direct" \/ disc.attempt > 0 \/ disc.result = "device")
  /\ (disc.attempt > 0 /\ disc.result = "device") =>
       disc.failed = [j \in 1..(disc.attempt - 1) |-> j]

\* C30: a reply whose build ended as one of the five outcomes is in exactly
\* the bucket of that outcome: unsupported, a requires-auth stub, a
\* connection-timeout stub, invalid, or the device.
C30_OneBucketPerReply ==
  \A ip \in IPs :
    LET o == disc.outcome[ip]
        inDiscovered(v) == /\ disc.discoveredDevices[ip] = v
                           /\ ip \notin disc.unsupportedDeviceExceptions
                           /\ ip \notin disc.invalidDeviceExceptions
    IN  /\ o = "UnsupportedDeviceError" =>
             /\ ip \in disc.unsupportedDeviceExceptions
             /\ ip \notin disc.invalidDeviceExceptions
             /\ disc.discoveredDevices[ip] = "none"
        /\ o = "AuthenticationError" => inDiscovered("requiresAuth")
        /\ o = "TimeoutError" => inDiscovered("connectionTimeout")
        /\ o \in {"KasaException", "_RetryableError"} =>
             /\ ip \in disc.invalidDeviceExceptions
             /\ ip \notin disc.unsupportedDeviceExceptions
             /\ disc.discoveredDevices[ip] = "none"
        /\ o = "built" => inDiscovered("device")

\* one reply ended in a connection-timeout stub, another one in invalid
C30_Witness ==
  /\ disc.outcome["10.0.0.1"] = "TimeoutError"
  /\ disc.discoveredDevices["10.0.0.1"] = "connectionTimeout"
  /\ disc.outcome["10.0.0.2"] = "KasaException"
  /\ "10.0.0.2" \in disc.invalidDeviceExceptions

\* the values of the static members of SmartErrorCode that the model uses
RegisteredCodes ==
  {0, -1, 1003, -1501, JSON_DECODE_FAIL_ERROR, SESSION_EXPIRED, INTERNAL_UNKNOWN_ERROR}

\* C31: when an attempt fails on the error_code of a response and that code is
\* not in the registry, the error carries INTERNAL_UNKNOWN_ERROR.
C31_UnknownCodeIsInternal ==
  \A m \in Methods :
    (/\ smart.fail.cause = "single"
     /\ smart.fail.attempt = smart.retry + 1
     /\ smart.answers[m].some
     /\ smart.answers[m].code \notin RegisteredCodes) =>
      smart.fail.code = INTERNAL_UNKNOWN_ERROR

\* C32: for each of voltage, current, power and total: the native key of the
\* raw record is returned unchanged; with only the milli-unit key, its value
\* divided by 1000; with neither, null; and the milli-unit key read from a
\* record with only the native key is the native value times 1000.
C32_EmeterScaling ==
  \A a \in Attributes :
    LET native == a \in DOMAIN emeter.data
        milli == MilliKey[a] \in DOMAIN emeter.data
    IN  /\ (emeter.pc # "none" /\ (native \/ milli)) => emeter.pc # "TypeError"
        /\ (emeter.pc = "read" /\ emeter.item = a) =>
             emeter.value =
               IF native THEN [k |-> "number", v |-> emeter.data[a] * 1000]
               ELSE IF milli THEN [k |-> "number", v |-> emeter.data[MilliKey[a]]]
               ELSE NullValue
        /\ (emeter.pc = "read" /\ emeter.item = MilliKey[a] /\ native /\ ~milli) =>
             emeter.value = [k |-> "number", v |-> emeter.data[a] * 1000 * 1000]

\* C33: when an attempt of IotProtocol.query() ends with a RetryableError and
\* retries are left, the transport is reset and the query waits for the
\* backoff before its next attempt.
C33_RetryableBacksOff ==
  [][(/\ protocol = "iot"
      /\ obs'.last # obs.last
      /\ obs'.last.err = "Retryable"
      /\ obs'.last.thrown = "none") =>
       /\ obs'.last.reset
       /\ q'[obs'.last.caller].stage = "backoff"]_vars

\* C40: an error that ends an attempt of IotProtocol.query() is either one
\* the retry policy retries (ConnectionError, RetryableError, TimeoutError,
\* with retries left) or it is thrown to the caller as it is; query() never
\* throws the 'unreachable' exception.
C40_NoErrorDropped ==
  (protocol = "iot" /\ obs.last.err # "none") =>
    /\ obs.last.thrown # "Unreachable"
    /\ obs.last.thrown = "none" => obs.last.err \in {"Connection", "Retryable", "Timeout"}
    /\ obs.last.thrown # "none" => obs.last.thrown = obs.last.err

\* C34: the page loop of a list advances until it ends.  The loop is at a page
\* request only while the list is shorter than its sum, that request is a single
\* request of the list's method with start_index = the length of the list so
\* far, and a page that keeps the loop going makes the list longer: an empty
\* page, or a page without the list, ends the loop.  The list has at most sum
\* page requests.
LastSent == smart.sent[Len(smart.sent)]

C34_PagesAdvance ==
  [][/\ smart'.mode = "page" =>
          /\ smart'.page.entry.len < smart'.page.entry.sum
          /\ smart'.sent # <<>>
          /\ smart'.sent[Len(smart'.sent)] =
               [kind |-> "single", methods |-> <<smart'.page.method>>,
                start |-> smart'.page.entry.len]
     /\ (smart.mode = "page" /\ smart'.mode = "page"
         /\ smart'.page.method = smart.page.method) =>
          /\ smart'.page.entry.len > smart.page.entry.len
          /\ smart'.page.entry.sum = smart.page.entry.sum
     /\ (smart.mode = "page" /\ smart'.broke /\ ~smart.broke) =>
          (smart'.mode = "page" => smart'.page.method # smart.page.method)]_vars

\* the second page request of a list: the first page brought one of two items
C34_Witness ==
  /\ smart.mode = "page" /\ smart.page.entry.len = 1 /\ smart.page.entry.sum = 2
  /\ Len(smart.sent) >= 2
  /\ LastSent.start = 1
  /\ smart.sent[Len(smart.sent) - 1] = [LastSent EXCEPT !.start = 0]

\* C35: the body of a KLAP request for a plaintext of n bytes is the 32-byte
\* signature and a ciphertext of 16 * (n \div 16 + 1) bytes: the plaintext under
\* one PKCS7 padding.
C35_PaddedOnce ==
  cipher.pc # "none" =>
    /\ cipher.ciphertext = 16 * ((cipher.msg \div 16) + 1)
    /\ cipher.body = 32 + cipher.ciphertext

\* C36: the body of every handshake post of the AES transport is the JSON text
\* of {method: "handshake", params: {key: ...}} with the PEM public key of the
\* key pair of the transport, the key pair that decrypts the device's key.
C36_HandshakeBody ==
  \A c \in DOMAIN pc :
    q[c].stage \in {"aes_handshake", "aes_handshake_default"} =>
      obs.body = [kind |-> "text", method |-> "handshake", key |-> "publicKeyPem"]

\* C37: between the steps of the AES transport, state = ESTABLISHED implies
\* that the token URL is set and that the encryption session exists.  No
\* behaviour of the transport takes it to ESTABLISHED (NeverEstablished): every
\* handshake ends in _handleResponseErrorCode throwing.
C37_EstablishedHasSession ==
  (transport = "aes" /\ tr.state = "ESTABLISHED") =>
    tr.tokenUrl # "null" /\ tr.encryptionSession.live

NeverEstablished == transport = "aes" => tr.state = "HANDSHAKE_REQUIRED"

\* C38: in a discovery of one target, whenever 'complete' has been signalled
\* before the timeout, the target is in exactly one of discoveredDevices,
\* unsupportedDeviceExceptions and invalidDeviceExceptions.
BucketsOf(d, ip) ==
  {b \in {"discovered", "unsupported", "invalid"} :
     \/ b = "discovered" /\ d.discoveredDevices[ip] # "none"
     \/ b = "unsupported" /\ ip \in d.unsupportedDeviceExceptions
     \/ b = "invalid" /\ ip \in d.invalidDeviceExceptions}

C38_CompleteAfterRecord ==
  (disc.target # Broadcast /\ disc.targetDiscovered /\ ~disc.timedOut) =>
    Cardinality(BucketsOf(disc, disc.target)) = 1

\* C39: a request of SmartCamProtocol (a get, set or do request, or a
\* multipleRequest) whose response carries error_code 0 raises no error for
\* that code and returns the content of the response.
C39_SuccessCodeReturns ==
  (/\ cam.pc = "done"
   /\ cam.response.errorCode = [some |-> TRUE, code |-> 0]
   /\ cam.response.first \in {"error_code", "content"}) =>
    /\ cam.thrown = "none"
    /\ cam.returned # "none"

====
